---------------------------- MODULE Spec2Model ----------------------------
(***************************************************************************)
(* A model of the analytic core of qualai-mcp: the CodingEngine, the       *)
(* ThemeEngine and the TheoryEngine.  The engines keep no fields: the      *)
(* state of the model is the call in progress (its operation, arguments    *)
(* and, for the one loop that is modelled step by step, its locals) and    *)
(* the value the last call returned.                                       *)
(*                                                                         *)
(* JavaScript strings are sequences of one-character strings, so that      *)
(* split, trim, includes, startsWith, endsWith, toLowerCase and length are *)
(* computed and not assumed.  JavaScript numbers that are not integers     *)
(* (prevalence, saturationRate, centrality, completeness) are fractions    *)
(* [nan, num, den]; nan marks the IEEE NaN that 0/0 yields.                *)
(***************************************************************************)
EXTENDS Integers, Sequences, FiniteSets, TLC

VARIABLES
    pc,     \* "idle": no call in progress; "called": an operation has been
            \* invoked; "saturation": detectSaturation's loop is running;
            \* "returned": the call has returned; "responded": the host has
            \* answered a tool call
    op,     \* the operation called last ("none" before the first call)
    args,   \* its arguments, as the caller holds them
    ret,    \* what it returned (or its locals while pc = "saturation")
    db      \* the host's store: the entities and relations created so far

vars == <<pc, op, args, ret, db>>

-----------------------------------------------------------------------------
(* Bounds of the model *)

\* longest list of Codes handed to an operation
MaxCodes == 3

\* most data sources in a codesBySource map
MaxSources == 3

\* the most members a collection may have for the caller to repeat the call
MaxRepeated == 2

-----------------------------------------------------------------------------
(* Strings *)

\* the characters /\s/ matches that occur in the model's strings
IsSpace(c) == c \in {" ", "\n", "\t"}

\* the separator class of the regular expression /[-_\s]+/
IsSep(c) == c \in {"-", "_"} \/ IsSpace(c)

LowerCase == <<"a", "b", "c", "d", "e", "f", "g", "h", "i", "j", "k", "l", "m",
               "n", "o", "p", "q", "r", "s", "t", "u", "v", "w", "x", "y", "z">>

UpperCase == <<"A", "B", "C", "D", "E", "F", "G", "H", "I", "J", "K", "L", "M",
               "N", "O", "P", "Q", "R", "S", "T", "U", "V", "W", "X", "Y", "Z">>

LowerChar(c) ==
    IF \E i \in 1..26 : UpperCase[i] = c
    THEN LowerCase[CHOOSE i \in 1..26 : UpperCase[i] = c] ELSE c

UpperChar(c) ==
    IF \E i \in 1..26 : LowerCase[i] = c
    THEN UpperCase[CHOOSE i \in 1..26 : LowerCase[i] = c] ELSE c

\* String.prototype.toLowerCase
ToLowerCase(s) == [i \in 1..Len(s) |-> LowerChar(s[i])]

\* String.prototype.startsWith
StartsWith(s, p) == Len(p) <= Len(s) /\ SubSeq(s, 1, Len(p)) = p

\* String.prototype.endsWith
EndsWith(s, p) == Len(p) <= Len(s) /\ SubSeq(s, Len(s) - Len(p) + 1, Len(s)) = p

\* String.prototype.includes
Includes(s, p) == \E i \in 0..(Len(s) - Len(p)) : SubSeq(s, i + 1, i + Len(p)) = p

\* RegExp.prototype.test for a pattern that is an alternation of literals
TestAny(words, s) == \E w \in words : Includes(s, w)

RECURSIVE SplitRec(_, _, _, _, _)
SplitRec(s, i, cur, acc, inSep) ==
    IF i > Len(s) THEN Append(acc, cur)
    ELSE IF IsSep(s[i])
         THEN IF inSep THEN SplitRec(s, i + 1, cur, acc, TRUE)
              ELSE SplitRec(s, i + 1, <<>>, Append(acc, cur), TRUE)
         ELSE SplitRec(s, i + 1, Append(cur, s[i]), acc, FALSE)

\* name.split(/[-_\s]+/): a leading or trailing separator leaves an empty token
SplitName(s) == SplitRec(s, 1, <<>>, <<>>, FALSE)

\* Array.prototype.includes
Contains(seq, x) == \E i \in 1..Len(seq) : seq[i] = x

\* Array.prototype.slice(0, n)
Slice(seq, n) == SubSeq(seq, 1, IF Len(seq) < n THEN Len(seq) ELSE n)

\* Array.prototype.flatMap(c => c.examples)
RECURSIVE FlatExamples(_)
FlatExamples(codes) ==
    IF codes = <<>> THEN <<>> ELSE Head(codes).examples \o FlatExamples(Tail(codes))

\* reduce((sum, c) => sum + c.frequency, 0)
RECURSIVE SumFrequency(_)
SumFrequency(codes) ==
    IF codes = <<>> THEN 0 ELSE Head(codes).frequency + SumFrequency(Tail(codes))

\* map(c => c.name)
Names(codes) == [i \in 1..Len(codes) |-> codes[i].name]

\* the values of a Set built from a sequence: first occurrences, in order
RECURSIVE Distinct(_, _)
Distinct(words, acc) ==
    IF words = <<>> THEN acc
    ELSE Distinct(Tail(words),
             IF Contains(acc, Head(words)) THEN acc ELSE Append(acc, Head(words)))

Min(a, b) == IF a < b THEN a ELSE b
Max(a, b) == IF a > b THEN a ELSE b

-----------------------------------------------------------------------------
(* Inputs: the Codes the operations are called with *)

CodeTypes == {"in_vivo", "constructed", "theoretical"}

Code(n, d, ex, f, t) ==
    [name |-> n, definition |-> d, examples |-> ex, frequency |-> f, type |-> t]

\* Codes as the Coding Stage or the host's store hands them on: frequency >= 1
CodePool == {
    Code(<<"a", "-", "b", "-", "c", "-", "d">>, <<"l", "e", "d", " ", "t", "o">>, <<<<"e", "1">>>>, 1, "constructed"),
    Code(<<"a", "-", "b", "-", "c">>, <<>>, <<<<"e", "2">>>>, 2, "in_vivo"),
    Code(<<"a", "-", "b">>, <<"b", "e", "c", "a", "u", "s", "e">>, <<<<"e">>>>, 3, "theoretical"),
    Code(<<"c", "o", "p", "i", "n", "g">>, <<"l", "e", "d", " ", "t", "o">>, <<<<"e", "1">>, <<"e", "2">>>>, 1, "constructed"),
    Code(<<"s", "i", "n", "g", "l", "e">>, <<"o", "n", "e", " ", "c", "o", "d", "e">>, <<>>, 1, "constructed"),
    Code(<<"n", "e", "g", "a", "t", "i", "v", "e">>, <<"a", " ", "c", "h", "a", "l", "l", "e", "n", "g", "e">>, <<<<"e", "2">>>>, 2, "constructed"),
    Code(<<"d", "i", "f", "f", "i", "c", "u", "l", "t">>, <<"a", "n", " ", "e", "a", "s", "y", " ", "r", "e", "s", "u", "l", "t">>, <<>>, 1, "in_vivo") }

RECURSIVE SeqsUpTo(_, _)
SeqsUpTo(S, n) ==
    IF n = 0 THEN {<<>>}
    ELSE LET shorter == SeqsUpTo(S, n - 1)
         IN  shorter \cup {Append(s, x) : s \in shorter, x \in S}

\* every list of at most MaxCodes Codes of the pool, repeats included
CodeLists == SeqsUpTo(CodePool, MaxCodes)

-----------------------------------------------------------------------------
(* CodingEngine.refineCodebook *)

\* words1.filter(w => words2.includes(w)).length
CommonWords(words1, words2) ==
    Cardinality({i \in 1..Len(words1) : Contains(words2, words1[i])})

\* CodingEngine.codesAreSimilar: commonWords / max(lengths) > 0.5
CodingCodesAreSimilar(code1, code2) ==
    LET words1 == SplitName(code1.name)
        words2 == SplitName(code2.name)
    IN  2 * CommonWords(words1, words2) > Max(Len(words1), Len(words2))

\* the index of the first group whose founder (groupCodes[0]) the code is
\* similar to, 0 when there is none
FirstSimilarGroup(groups, code) ==
    LET hits == {i \in 1..Len(groups) : CodingCodesAreSimilar(code, groups[i].codes[1])}
    IN  IF hits = {} THEN 0 ELSE CHOOSE i \in hits : \A j \in hits : i <= j

\* Map.prototype.set on an insertion-ordered map kept as a sequence of entries
MapSet(groups, k, v) ==
    LET at == {i \in 1..Len(groups) : groups[i].key = k}
    IN  IF at = {} THEN Append(groups, [key |-> k, codes |-> v])
        ELSE [i \in 1..Len(groups) |->
                 IF i \in at THEN [key |-> k, codes |-> v] ELSE groups[i]]

\* the grouping loop of refineCodebook: first similar founder wins
RECURSIVE RefineGroups(_, _)
RefineGroups(codes, groups) ==
    IF codes = <<>> THEN groups
    ELSE LET code == Head(codes)
             g == FirstSimilarGroup(groups, code)
         IN  IF g # 0
             THEN RefineGroups(Tail(codes),
                      [groups EXCEPT ![g].codes = Append(@, code)])
             ELSE RefineGroups(Tail(codes), MapSet(groups, code.name, <<code>>))

\* Array.prototype.sort((a, b) => a.name.length - b.name.length): stable
RECURSIVE InsertByNameLength(_, _)
InsertByNameLength(sorted, c) ==
    IF sorted = <<>> THEN <<c>>
    ELSE IF Len(Head(sorted).name) <= Len(c.name)
         THEN <<Head(sorted)>> \o InsertByNameLength(Tail(sorted), c)
         ELSE <<c>> \o sorted

RECURSIVE SortByNameLength(_)
SortByNameLength(codes) ==
    IF codes = <<>> THEN <<>>
    ELSE InsertByNameLength(SortByNameLength(SubSeq(codes, 1, Len(codes) - 1)),
                            codes[Len(codes)])

\* CodingEngine.selectBestCodeName sorts groupCodes in place and returns the
\* first name: what the caller reads from groupCodes afterwards is the sorted
\* array
SelectBestCodeName(groupCodes) == SortByNameLength(groupCodes)

\* refineCodebook's merged code, were it to keep the frequency of the member it is
\* named after
MergedCodeOwnFrequency(groupCodes) ==
    LET sorted == SelectBestCodeName(groupCodes)
    IN  [name |-> sorted[1].name,
         definition |-> sorted[1].definition,
         examples |-> Slice(FlatExamples(sorted), 5),
         frequency |-> sorted[1].frequency,
         type |-> sorted[1].type]

\* the merged Code of a group of more than one member.  The object literal
\* evaluates name first, so definition, examples and type read the array
\* selectBestCodeName has already sorted.
MergedCode(groupCodes) ==
    LET sorted == SelectBestCodeName(groupCodes)
    IN  [name |-> sorted[1].name,
         definition |-> sorted[1].definition,
         examples |-> Slice(FlatExamples(sorted), 5),
         frequency |-> SumFrequency(sorted),
         type |-> sorted[1].type]

\* the merge loop of refineCodebook
RECURSIVE MergeGroups(_, _, _)
MergeGroups(groups, refined, merges) ==
    IF groups = <<>> THEN [refined |-> refined, merges |-> merges]
    ELSE LET groupCodes == Head(groups).codes
         IN  IF Len(groupCodes) > 1
             THEN LET merged == MergedCode(groupCodes)
                  IN  MergeGroups(Tail(groups), Append(refined, merged),
                          Append(merges,
                              [from |-> Names(SelectBestCodeName(groupCodes)),
                               to |-> merged.name,
                               reason |-> "Similar semantic meaning"]))
             ELSE MergeGroups(Tail(groups), Append(refined, groupCodes[1]), merges)

\* CodingEngine.refineCodebook
RefineCodebookOf(codes) == MergeGroups(RefineGroups(codes, <<>>), <<>>, <<>>)


-----------------------------------------------------------------------------
(* CodingEngine.refineCodebook: the arrays it writes *)

\* The arrays of a refineCodebook call, by reference: array 1 is the codes
\* array of the caller, every [code] makes a new array, and groups holds the
\* references of the Map's values in insertion order.  groupCodes.push(code)
\* writes the array the Map holds.
RECURSIVE RefineArrays(_, _, _)
RefineArrays(arrays, groups, i) ==
    IF i > Len(arrays[1]) THEN [arrays |-> arrays, groups |-> groups]
    ELSE LET code == arrays[1][i]
             hits == {g \in 1..Len(groups) :
                         CodingCodesAreSimilar(code, arrays[groups[g]][1])}
         IN  IF hits # {}
             THEN LET ref == groups[CHOOSE g \in hits : \A h \in hits : g <= h]
                  IN  RefineArrays([arrays EXCEPT ![ref] = Append(@, code)],
                                   groups, i + 1)
             ELSE RefineArrays(Append(arrays, <<code>>),
                               Append(groups, Len(arrays) + 1), i + 1)

\* codes.sort(...) in selectBestCodeName, were codes the caller's array
SortCallerArray(arrays, ref) == [arrays EXCEPT ![1] = SortByNameLength(@)]

\* codes.sort(...) in selectBestCodeName: it sorts the array it is handed
SortInPlace(arrays, ref) == [arrays EXCEPT ![ref] = SortByNameLength(@)]

\* the merge loop: selectBestCodeName is handed the array of every group of
\* more than one code
RECURSIVE SortGroupArrays(_, _)
SortGroupArrays(arrays, groups) ==
    IF groups = <<>> THEN arrays
    ELSE SortGroupArrays(IF Len(arrays[Head(groups)]) > 1
                         THEN SortInPlace(arrays, Head(groups))
                         ELSE arrays,
                         Tail(groups))

\* the caller's codes array once refineCodebook has returned
CodesAfterRefine(codes) ==
    LET grouped == RefineArrays(<<codes>>, <<>>, 1)
    IN  SortGroupArrays(grouped.arrays, grouped.groups)[1]

-----------------------------------------------------------------------------
(* Numbers that are not integers *)

\* n / d for d > 0
Frac(n, d) == [nan |-> FALSE, num |-> n, den |-> d]

\* 0 / 0
NaN == [nan |-> TRUE, num |-> 0, den |-> 0]

\* a > b on numbers; every comparison with NaN is false
FracGt(a, b) == ~a.nan /\ ~b.nan /\ a.num * b.den > b.num * a.den

FracEq(a, b) == ~a.nan /\ ~b.nan /\ a.num * b.den = b.num * a.den

-----------------------------------------------------------------------------
(* CodingEngine.autoCoding *)

\* paragraphs longer than this are split into sentences
LongParagraph == 500

\* the length examples are cut to
ExampleLength == 100

\* String.prototype.trim
RECURSIVE TrimStart(_)
TrimStart(s) == IF s # <<>> /\ IsSpace(Head(s)) THEN TrimStart(Tail(s)) ELSE s

RECURSIVE TrimEnd(_)
TrimEnd(s) ==
    IF s # <<>> /\ IsSpace(s[Len(s)]) THEN TrimEnd(SubSeq(s, 1, Len(s) - 1)) ELSE s

Trim(s) == TrimEnd(TrimStart(s))

\* the end of the run of characters satisfying a class that starts at i
\* (i - 1 when s[i] is not of the class)
RECURSIVE RunEnd(_, _, _)
RunEnd(s, i, class) ==
    IF i <= Len(s) /\ s[i] \in class THEN RunEnd(s, i + 1, class) ELSE i - 1

\* text.split(/\n\n+/)
RECURSIVE SplitParagraphsRec(_, _, _, _)
SplitParagraphsRec(s, i, cur, acc) ==
    IF i > Len(s) THEN Append(acc, cur)
    ELSE IF s[i] = "\n" /\ i < Len(s) /\ s[i + 1] = "\n"
         THEN SplitParagraphsRec(s, RunEnd(s, i, {"\n"}) + 1, <<>>, Append(acc, cur))
         ELSE SplitParagraphsRec(s, i + 1, Append(cur, s[i]), acc)

SplitParagraphs(text) == SplitParagraphsRec(text, 1, <<>>, <<>>)

Terminators == {".", "!", "?"}

\* para.match(/[^.!?]+[.!?]+/g): the matches from position i on
RECURSIVE SentencesFrom(_, _)
SentencesFrom(s, i) ==
    IF i > Len(s) THEN <<>>
    ELSE IF s[i] \in Terminators THEN SentencesFrom(s, i + 1)
    ELSE LET k == CHOOSE k \in i..Len(s) :
                      /\ \A j \in i..k : s[j] \notin Terminators
                      /\ (k = Len(s) \/ s[k + 1] \in Terminators)
         IN  IF k = Len(s) THEN <<>>
             ELSE LET m == RunEnd(s, k + 1, Terminators)
                  IN  <<SubSeq(s, i, m)>> \o SentencesFrom(s, m + 1)

\* para.match(/[^.!?]+[.!?]+/g) || [para]
Sentences(para) ==
    IF SentencesFrom(para, 1) = <<>> THEN <<para>> ELSE SentencesFrom(para, 1)

\* the loop over the sentences of a long paragraph: [segments, currentIndex]
RECURSIVE SegmentSentences(_, _, _)
SegmentSentences(sentences, segments, currentIndex) ==
    IF sentences = <<>> THEN [segments |-> segments, currentIndex |-> currentIndex]
    ELSE LET trimmed == Trim(Head(sentences))
         IN  IF Len(trimmed) > 0
             THEN SegmentSentences(Tail(sentences),
                      Append(segments, [text |-> trimmed, start |-> currentIndex,
                                        end |-> currentIndex + Len(trimmed)]),
                      currentIndex + Len(Head(sentences)))
             ELSE SegmentSentences(Tail(sentences), segments, currentIndex)

\* the loop over the paragraphs
RECURSIVE SegmentParagraphs(_, _, _)
SegmentParagraphs(paragraphs, segments, currentIndex) ==
    IF paragraphs = <<>> THEN segments
    ELSE LET para == Head(paragraphs)
         IN  IF Len(Trim(para)) = 0
             THEN SegmentParagraphs(Tail(paragraphs), segments, currentIndex)
             ELSE IF Len(para) > LongParagraph
             THEN LET after == SegmentSentences(Sentences(para), segments, currentIndex)
                  IN  SegmentParagraphs(Tail(paragraphs), after.segments,
                                        after.currentIndex)
             ELSE SegmentParagraphs(Tail(paragraphs),
                      Append(segments, [text |-> Trim(para), start |-> currentIndex,
                                        end |-> currentIndex + Len(para)]),
                      currentIndex + Len(para) + 2)

\* segmentText, were it to return the whole text as one segment
SegmentTextWhole(text) == <<[text |-> Trim(text), start |-> 0, end |-> Len(text)]>>

\* CodingEngine.segmentText
SegmentText(text) == SegmentParagraphs(SplitParagraphs(text), <<>>, 0)

Digits == {"0", "1", "2", "3", "4", "5", "6", "7", "8", "9"}

\* the class \w
WordChars ==
    {LowerCase[i] : i \in 1..26} \cup {UpperCase[i] : i \in 1..26} \cup Digits \cup {"_"}

Spaces == {" ", "\n", "\t"}

\* String.prototype.replace(/\s+/g, '-')
RECURSIVE DashSpaces(_, _)
DashSpaces(s, i) ==
    IF i > Len(s) THEN <<>>
    ELSE IF s[i] \in Spaces THEN <<"-">> \o DashSpaces(s, RunEnd(s, i, Spaces) + 1)
    ELSE <<s[i]>> \o DashSpaces(s, i + 1)

\* text.substring(from, from + ExampleLength), from counted from 0
ExampleAt(text, from) ==
    SubSeq(text, from + 1, Min(Len(text), from + ExampleLength))

\* text.match(/"([^"]+)"/g) with the quotes removed: the quoted phrases
RECURSIVE QuotedFrom(_, _)
QuotedFrom(s, i) ==
    IF i > Len(s) THEN <<>>
    ELSE IF s[i] = "\"" /\ i < Len(s) /\ s[i + 1] # "\""
                /\ \E j \in (i + 2)..Len(s) : s[j] = "\""
         THEN LET j == CHOOSE j \in (i + 2)..Len(s) :
                           s[j] = "\"" /\ \A k \in (i + 2)..(j - 1) : s[k] # "\""
              IN  <<SubSeq(s, i + 1, j - 1)>> \o QuotedFrom(s, j + 1)
         ELSE QuotedFrom(s, i + 1)

\* the in-vivo codes of the quoted phrases
QuoteCodes(text) ==
    LET cleaned == SelectSeq([i \in 1..Len(QuotedFrom(text, 1)) |->
                                 Trim(QuotedFrom(text, 1)[i])],
                             LAMBDA q : Len(q) > 10 /\ Len(q) < 50)
    IN  [i \in 1..Len(cleaned) |->
            Code(DashSpaces(ToLowerCase(cleaned[i]), 1),
                 <<"I", "n", "-", "v", "i", "v", "o", " ", "c", "o", "d", "e", ":", " ">> \o <<"\"">> \o cleaned[i] \o <<"\"">>,
                 <<text>>, 1, "in_vivo")]

\* the alternation of emotionPatterns, in order
EmotionVerbs == <<<<"f", "e", "e", "l">>, <<"f", "e", "l", "t">>, <<"f", "e", "e", "l", "i", "n", "g">>, <<"t", "h", "i", "n", "k">>, <<"t", "h", "o", "u", "g", "h", "t">>, <<"b", "e", "l", "i", "e", "v", "e">>, <<"b", "e", "l", "i", "e", "v", "e", "d">>>>

\* the end of the match of /(feel|...)\s+(\w+)/i that starts at i, 0 for none
EmotionMatchEnd(s, i) ==
    LET lower == ToLowerCase(s)
        Ends(v) == LET afterVerb == i + Len(EmotionVerbs[v]) - 1
                       afterSpace == RunEnd(s, afterVerb + 1, Spaces)
                       afterWord == RunEnd(s, afterSpace + 1, WordChars)
                   IN  IF /\ afterVerb <= Len(s)
                          /\ SubSeq(lower, i, afterVerb) = EmotionVerbs[v]
                          /\ afterSpace > afterVerb
                          /\ afterWord > afterSpace
                       THEN afterWord ELSE 0
        hits == {v \in 1..Len(EmotionVerbs) : Ends(v) # 0}
    IN  IF hits = {} THEN 0 ELSE Ends(CHOOSE v \in hits : \A u \in hits : v <= u)

\* text.matchAll(emotionPatterns): one in-vivo code per match
RECURSIVE EmotionCodesFrom(_, _)
EmotionCodesFrom(text, i) ==
    IF i > Len(text) THEN <<>>
    ELSE LET e == EmotionMatchEnd(text, i)
         IN  IF e = 0 THEN EmotionCodesFrom(text, i + 1)
             ELSE LET phrase == ToLowerCase(SubSeq(text, i, e))
                  IN  <<Code(DashSpaces(phrase, 1),
                             <<"E", "m", "o", "t", "i", "o", "n", "a", "l", "/", "c", "o", "g", "n", "i", "t", "i", "v", "e", " ", "e", "x", "p", "r", "e", "s", "s", "i", "o", "n", ":", " ">> \o phrase,
                             <<ExampleAt(text, i - 1)>>, 1, "in_vivo")>>
                      \o EmotionCodesFrom(text, e + 1)

\* CodingEngine.extractInVivoCodes
ExtractInVivoCodes(text) == QuoteCodes(text) \o EmotionCodesFrom(text, 1)

\* lowerText.match(/\b\w+ing\b/g): the words of at least four characters
\* that end in ing
RECURSIVE GerundsFrom(_, _)
GerundsFrom(s, i) ==
    IF i > Len(s) THEN <<>>
    ELSE IF s[i] \notin WordChars THEN GerundsFrom(s, i + 1)
    ELSE LET e == RunEnd(s, i, WordChars)
             word == SubSeq(s, i, e)
         IN  (IF Len(word) >= 4 /\ EndsWith(word, <<"i", "n", "g">>) THEN <<word>> ELSE <<>>)
                 \o GerundsFrom(s, e + 1)

\* new RegExp(`\\b${emotion}\\b`, 'i').test(text)
HasWord(text, word) ==
    \E i \in 1..(Len(text) - Len(word) + 1) :
        /\ SubSeq(ToLowerCase(text), i, i + Len(word) - 1) = word
        /\ (i = 1 \/ text[i - 1] \notin WordChars)
        /\ (i + Len(word) > Len(text) \/ text[i + Len(word)] \notin WordChars)

Emotions == <<<<"h", "a", "p", "p", "y">>, <<"s", "a", "d">>, <<"a", "n", "g", "r", "y">>, <<"f", "r", "u", "s", "t", "r", "a", "t", "e", "d">>, <<"e", "x", "c", "i", "t", "e", "d">>, <<"w", "o", "r", "r", "i", "e", "d">>, <<"a", "n", "x", "i", "o", "u", "s">>>>

\* CodingEngine.generateConstructedCodes
GenerateConstructedCodes(text, methodology) ==
    LET lowerText == ToLowerCase(text)
        gerunds == SelectSeq(Slice(Distinct(GerundsFrom(lowerText, 1), <<>>), 5),
                             LAMBDA g : Len(g) > 5)
        felt == SelectSeq(Emotions, LAMBDA e : HasWord(text, e))
    IN  (IF Includes(methodology, <<"g", "r", "o", "u", "n", "d", "e", "d">>) \/ methodology = <<"g", "e", "n", "e", "r", "a", "l">>
         THEN [i \in 1..Len(gerunds) |->
                  Code(gerunds[i], <<"P", "r", "o", "c", "e", "s", "s", "/", "a", "c", "t", "i", "o", "n", ":", " ">> \o gerunds[i], <<text>>, 1,
                       "constructed")]
              \o (IF TestAny({<<"r", "e", "l", "a", "t", "i", "o", "n", "s", "h", "i", "p">>, <<"i", "n", "t", "e", "r", "a", "c", "t", "i", "o", "n">>, <<"c", "o", "n", "n", "e", "c", "t", "i", "o", "n">>, <<"b", "e", "t", "w", "e", "e", "n">>},
                             lowerText)
                  THEN <<Code(<<"r", "e", "l", "a", "t", "i", "o", "n", "a", "l", "-", "d", "y", "n", "a", "m", "i", "c", "s">>,
                              <<"D", "e", "s", "c", "r", "i", "b", "e", "s", " ", "r", "e", "l", "a", "t", "i", "o", "n", "s", "h", "i", "p", "s", " ", "o", "r", " ", "i", "n", "t", "e", "r", "a", "c", "t", "i", "o", "n", "s", " ", "b", "e", "t", "w", "e", "e", "n", " ", "e", "n", "t", "i", "t", "i", "e", "s">>,
                              <<text>>, 1, "constructed")>>
                  ELSE <<>>)
         ELSE <<>>)
        \o (IF Includes(methodology, <<"t", "h", "e", "m", "a", "t", "i", "c">>) \/ methodology = <<"g", "e", "n", "e", "r", "a", "l">>
            THEN (IF TestAny({<<"d", "i", "f", "f", "i", "c", "u", "l", "t">>, <<"c", "h", "a", "l", "l", "e", "n", "g", "e">>, <<"p", "r", "o", "b", "l", "e", "m">>, <<"i", "s", "s", "u", "e">>, <<"s", "t", "r", "u", "g", "g", "l", "e">>},
                             lowerText)
                  THEN <<Code(<<"c", "h", "a", "l", "l", "e", "n", "g", "e", "-", "i", "d", "e", "n", "t", "i", "f", "i", "e", "d">>,
                              <<"P", "a", "r", "t", "i", "c", "i", "p", "a", "n", "t", " ", "d", "e", "s", "c", "r", "i", "b", "e", "s", " ", "a", " ", "d", "i", "f", "f", "i", "c", "u", "l", "t", "y", " ", "o", "r", " ", "c", "h", "a", "l", "l", "e", "n", "g", "e">>,
                              <<text>>, 1, "constructed")>>
                  ELSE <<>>)
                 \o (IF TestAny({<<"s", "o", "l", "u", "t", "i", "o", "n">>, <<"s", "t", "r", "a", "t", "e", "g", "y">>, <<"a", "p", "p", "r", "o", "a", "c", "h">>, <<"w", "a", "y", " ", "t", "o">>, <<"h", "o", "w", " ", "t", "o">>},
                                lowerText)
                     THEN <<Code(<<"c", "o", "p", "i", "n", "g", "-", "s", "t", "r", "a", "t", "e", "g", "y">>,
                                 <<"P", "a", "r", "t", "i", "c", "i", "p", "a", "n", "t", " ", "d", "e", "s", "c", "r", "i", "b", "e", "s", " ", "a", " ", "s", "t", "r", "a", "t", "e", "g", "y", " ", "o", "r", " ", "s", "o", "l", "u", "t", "i", "o", "n">>,
                                 <<text>>, 1, "constructed")>>
                     ELSE <<>>)
                 \o [i \in 1..Len(felt) |->
                        Code(<<"e", "m", "o", "t", "i", "o", "n", "-">> \o felt[i], <<"E", "m", "o", "t", "i", "o", "n", "a", "l", " ", "s", "t", "a", "t", "e", ":", " ">> \o felt[i],
                             <<text>>, 1, "constructed")]
            ELSE <<>>)
        \o (IF Includes(methodology, <<"p", "h", "e", "n", "o", "m", "e", "n", "o", "l", "o", "g", "y">>)
               /\ TestAny({<<"e", "x", "p", "e", "r", "i", "e", "n", "c", "e">>, <<"f", "e", "e", "l">>, <<"s", "e", "n", "s", "e">>, <<"p", "e", "r", "c", "e", "i", "v", "e">>}, lowerText)
            THEN <<Code(<<"l", "i", "v", "e", "d", "-", "e", "x", "p", "e", "r", "i", "e", "n", "c", "e">>,
                        <<"D", "e", "s", "c", "r", "i", "p", "t", "i", "o", "n", " ", "o", "f", " ", "l", "i", "v", "e", "d", " ", "e", "x", "p", "e", "r", "i", "e", "n", "c", "e", " ", "o", "r", " ", "p", "e", "r", "c", "e", "p", "t", "i", "o", "n">>,
                        <<text>>, 1, "constructed")>>
            ELSE <<>>)

\* the mark appended to a cut example
Ellipsis == <<".", ".", ".">>

\* CodingEngine.codeApplies
CodeApplies(text, code) ==
    LET keywords == SplitName(code)
    IN  \E k \in 1..Len(keywords) : Includes(ToLowerCase(text), ToLowerCase(keywords[k]))

\* CodingEngine.generateCodesForSegment
GenerateCodesForSegment(text, methodology, existingCodes) ==
    LET applying == SelectSeq(existingCodes, LAMBDA c : CodeApplies(text, c))
    IN  ExtractInVivoCodes(text)
        \o GenerateConstructedCodes(text, methodology)
        \o [i \in 1..Len(applying) |->
               Code(applying[i], <<"E", "x", "i", "s", "t", "i", "n", "g", " ", "c", "o", "d", "e", " ", "f", "r", "o", "m", " ", "c", "o", "d", "e", "b", "o", "o", "k">>,
                    <<ExampleAt(text, 0) \o Ellipsis>>, 1, "constructed")]

\* the accumulation, were a repeated name to replace its record
\* (allCodes.set) instead of counting
RECURSIVE AccumulateReplacing(_, _, _)
AccumulateReplacing(segmentCodes, allCodes, segmentText) ==
    IF segmentCodes = <<>> THEN allCodes
    ELSE LET code == Head(segmentCodes)
             at == {i \in 1..Len(allCodes) : allCodes[i].name = code.name}
         IN  AccumulateReplacing(Tail(segmentCodes),
                 IF at = {} THEN Append(allCodes, code)
                 ELSE [i \in 1..Len(allCodes) |-> IF i \in at THEN code ELSE allCodes[i]],
                 segmentText)

\* the accumulation of one segment's codes into allCodes, a Map by name kept
\* as a sequence of Codes in insertion order
RECURSIVE Accumulate(_, _, _)
Accumulate(segmentCodes, allCodes, segmentText) ==
    IF segmentCodes = <<>> THEN allCodes
    ELSE LET code == Head(segmentCodes)
             at == {i \in 1..Len(allCodes) : allCodes[i].name = code.name}
         IN  Accumulate(Tail(segmentCodes),
                 IF at = {} THEN Append(allCodes, code)
                 ELSE [i \in 1..Len(allCodes) |->
                          IF i \in at
                          THEN [allCodes[i] EXCEPT
                                   !.frequency = @ + 1,
                                   !.examples =
                                       Append(@, ExampleAt(segmentText, 0) \o Ellipsis)]
                          ELSE allCodes[i]],
                 segmentText)

\* the loop of autoCoding over the segments: [codes, segments]
RECURSIVE CodeSegments(_, _, _, _, _)
CodeSegments(segments, methodology, existingCodes, allCodes, codedSegments) ==
    IF segments = <<>> THEN [codes |-> allCodes, segments |-> codedSegments]
    ELSE LET segment == Head(segments)
             segmentCodes ==
                 GenerateCodesForSegment(segment.text, methodology, existingCodes)
         IN  CodeSegments(Tail(segments), methodology, existingCodes,
                 Accumulate(segmentCodes, allCodes, segment.text),
                 Append(codedSegments,
                     [text |-> segment.text, codes |-> Names(segmentCodes),
                      startIndex |-> segment.start, endIndex |-> segment.end]))

RECURSIVE TotalCodeApplications(_)
TotalCodeApplications(segments) ==
    IF segments = <<>> THEN 0
    ELSE Len(Head(segments).codes) + TotalCodeApplications(Tail(segments))

\* Math.round(averageCodesPerSegment * 10) / 10
RoundedAverage(total, n) ==
    IF n > 0 THEN Frac((20 * total + n) \div (2 * n), 10) ELSE Frac(0, 10)

\* CodingEngine.generateSummary
GenerateSummary(codes, segments) ==
    [totalCodes |-> Len(codes),
     inVivoCodes |-> Len(SelectSeq(codes, LAMBDA c : c.type = "in_vivo")),
     constructedCodes |-> Len(SelectSeq(codes, LAMBDA c : c.type = "constructed")),
     theoreticalCodes |-> Len(SelectSeq(codes, LAMBDA c : c.type = "theoretical")),
     averageCodesPerSegment |->
         RoundedAverage(TotalCodeApplications(segments), Len(segments))]

\* CodingEngine.autoCoding
AutoCodingOf(text, existingCodes, methodology) ==
    LET coded == CodeSegments(SegmentText(text), methodology, existingCodes, <<>>, <<>>)
    IN  [codes |-> coded.codes,
         segments |-> coded.segments,
         summary |-> GenerateSummary(coded.codes, coded.segments)]

-----------------------------------------------------------------------------
(* ThemeEngine.extractThemes *)

\* codesAreSimilar, were it to take an overlap of exactly 0.3 for similar
ThemeCodesOverlapAtLeast(code1, code2) ==
    LET words1 == SplitName(code1.name)
        words2 == SplitName(code2.name)
    IN  10 * CommonWords(words1, words2) >= 3 * Max(Len(words1), Len(words2))

\* ThemeEngine.codesAreSimilar: commonWords / max(lengths) > 0.3
ThemeCodesAreSimilar(code1, code2) ==
    LET words1 == SplitName(code1.name)
        words2 == SplitName(code2.name)
    IN  10 * CommonWords(words1, words2) > 3 * Max(Len(words1), Len(words2))

FirstSimilarThemeGroup(groups, code) ==
    LET hits == {i \in 1..Len(groups) : ThemeCodesAreSimilar(code, groups[i].codes[1])}
    IN  IF hits = {} THEN 0 ELSE CHOOSE i \in hits : \A j \in hits : i <= j

\* ThemeEngine.groupCodesBySimilarity
RECURSIVE GroupCodesBySimilarityRec(_, _)
GroupCodesBySimilarityRec(codes, groups) ==
    IF codes = <<>> THEN groups
    ELSE LET code == Head(codes)
             g == FirstSimilarThemeGroup(groups, code)
         IN  IF g # 0
             THEN GroupCodesBySimilarityRec(Tail(codes),
                      [groups EXCEPT ![g].codes = Append(@, code)])
             ELSE GroupCodesBySimilarityRec(Tail(codes),
                      MapSet(groups, code.name, <<code>>))

GroupCodesBySimilarity(codes) == GroupCodesBySimilarityRec(codes, <<>>)

\* the words of length > 3 of the codes' names, in order
RECURSIVE ThemeWords(_)
ThemeWords(codes) ==
    IF codes = <<>> THEN <<>>
    ELSE SelectSeq(SplitName(Head(codes).name), LAMBDA w : Len(w) > 3)
             \o ThemeWords(Tail(codes))

\* wordFreq.set(word, (wordFreq.get(word) || 0) + 1)
WordFreqAdd(freq, w) ==
    LET at == {i \in 1..Len(freq) : freq[i].word = w}
    IN  IF at = {} THEN Append(freq, [word |-> w, n |-> 1])
        ELSE [i \in 1..Len(freq) |->
                 IF i \in at THEN [word |-> w, n |-> freq[i].n + 1] ELSE freq[i]]

RECURSIVE WordFreq(_, _)
WordFreq(words, freq) ==
    IF words = <<>> THEN freq ELSE WordFreq(Tail(words), WordFreqAdd(freq, Head(words)))

\* sort((a, b) => b[1] - a[1]): stable, most frequent first
RECURSIVE InsertByCount(_, _)
InsertByCount(sorted, e) ==
    IF sorted = <<>> THEN <<e>>
    ELSE IF Head(sorted).n >= e.n
         THEN <<Head(sorted)>> \o InsertByCount(Tail(sorted), e)
         ELSE <<e>> \o sorted

RECURSIVE SortByCount(_)
SortByCount(freq) ==
    IF freq = <<>> THEN <<>>
    ELSE InsertByCount(SortByCount(SubSeq(freq, 1, Len(freq) - 1)), freq[Len(freq)])

\* w.charAt(0).toUpperCase() + w.slice(1)
Capitalize(w) == IF w = <<>> THEN <<>> ELSE <<UpperChar(w[1])>> \o Tail(w)

\* Array.prototype.join(' and ')
RECURSIVE JoinAnd(_)
JoinAnd(words) ==
    IF words = <<>> THEN <<>>
    ELSE IF Len(words) = 1 THEN words[1]
         ELSE words[1] \o <<" ", "a", "n", "d", " ">> \o JoinAnd(Tail(words))

\* ThemeEngine.generateThemeName
GenerateThemeName(codes) ==
    LET top == Slice(SortByCount(WordFreq(ThemeWords(codes), <<>>)), 3)
    IN  JoinAnd([i \in 1..Len(top) |-> Capitalize(top[i].word)])

\* ThemeEngine.generateThemeDescription: the template's parts
GenerateThemeDescription(codes) ==
    <<"This theme encompasses ", Len(codes), " related codes: ", Names(codes),
      ". It represents a pattern of meaning across the data.">>

\* calculatePrevalence, were it to divide by the number of codes
CalculatePrevalencePerCode(themeCodes, allCodes) ==
    IF Len(allCodes) > 0 THEN Frac(SumFrequency(themeCodes), Len(allCodes))
    ELSE Frac(0, 1)

\* ThemeEngine.calculatePrevalence
CalculatePrevalence(themeCodes, allCodes) ==
    LET themeFrequency == SumFrequency(themeCodes)
        totalFrequency == SumFrequency(allCodes)
    IN  IF totalFrequency > 0 THEN Frac(themeFrequency, totalFrequency) ELSE Frac(0, 1)

NoSubThemes == [defined |-> FALSE, themes |-> <<>>]

\* identifySubThemes, were it to group the codes from the last to the first
IdentifySubThemesFromLast(codes) ==
    LET reversed == [i \in 1..Len(codes) |-> codes[Len(codes) + 1 - i]]
        subGroups == SelectSeq(GroupCodesBySimilarity(reversed),
                               LAMBDA g : Len(g.codes) >= 2)
    IN  [i \in 1..Len(subGroups) |->
            [name |-> GenerateThemeName(subGroups[i].codes),
             description |-> GenerateThemeDescription(subGroups[i].codes),
             supportingCodes |-> Names(subGroups[i].codes),
             prevalence |-> CalculatePrevalence(subGroups[i].codes, codes),
             examples |-> Slice(FlatExamples(subGroups[i].codes), 2),
             subThemes |-> NoSubThemes]]

\* ThemeEngine.identifySubThemes
IdentifySubThemes(codes) ==
    LET subGroups == SelectSeq(GroupCodesBySimilarity(codes),
                               LAMBDA g : Len(g.codes) >= 2)
    IN  [i \in 1..Len(subGroups) |->
            [name |-> GenerateThemeName(subGroups[i].codes),
             description |-> GenerateThemeDescription(subGroups[i].codes),
             supportingCodes |-> Names(subGroups[i].codes),
             prevalence |-> CalculatePrevalence(subGroups[i].codes, codes),
             examples |-> Slice(FlatExamples(subGroups[i].codes), 2),
             subThemes |-> NoSubThemes]]

\* themes.sort((a, b) => b.prevalence - a.prevalence): stable, largest first
RECURSIVE InsertByPrevalence(_, _)
InsertByPrevalence(sorted, t) ==
    IF sorted = <<>> THEN <<t>>
    ELSE IF ~FracGt(t.prevalence, Head(sorted).prevalence)
         THEN <<Head(sorted)>> \o InsertByPrevalence(Tail(sorted), t)
         ELSE <<t>> \o sorted

RECURSIVE SortByPrevalence(_)
SortByPrevalence(themes) ==
    IF themes = <<>> THEN <<>>
    ELSE InsertByPrevalence(SortByPrevalence(SubSeq(themes, 1, Len(themes) - 1)),
                            themes[Len(themes)])

\* ThemeEngine.inductiveThemeExtraction
InductiveThemeExtraction(codes, depth) ==
    LET groups == SelectSeq(GroupCodesBySimilarity(codes),
                            LAMBDA g : ~(Len(g.codes) < 2))
        themes == [i \in 1..Len(groups) |->
            [name |-> GenerateThemeName(groups[i].codes),
             description |-> GenerateThemeDescription(groups[i].codes),
             supportingCodes |-> Names(groups[i].codes),
             prevalence |-> CalculatePrevalence(groups[i].codes, codes),
             examples |-> Slice(FlatExamples(groups[i].codes), 3),
             subThemes |->
                 IF depth = "deep" /\ Len(groups[i].codes) > 5
                 THEN [defined |-> TRUE, themes |-> IdentifySubThemes(groups[i].codes)]
                 ELSE NoSubThemes]]
    IN  SortByPrevalence(themes)

\* the theoreticalFrameworks of deductiveThemeExtraction, in order
TheoreticalFrameworks == <<
    [name |-> <<"C", "h", "a", "l", "l", "e", "n", "g", "e", "s", " ", "a", "n", "d", " ", "B", "a", "r", "r", "i", "e", "r", "s">>,
    
     keywords |-> <<<<"d", "i", "f", "f", "i", "c", "u", "l", "t">>, <<"c", "h", "a", "l", "l", "e", "n", "g", "e">>, <<"p", "r", "o", "b", "l", "e", "m">>, <<"b", "a", "r", "r", "i", "e", "r">>, <<"o", "b", "s", "t", "a", "c", "l", "e">>, <<"s", "t", "r", "u", "g", "g", "l", "e">>>>],
    [name |-> <<"S", "t", "r", "a", "t", "e", "g", "i", "e", "s", " ", "a", "n", "d", " ", "S", "o", "l", "u", "t", "i", "o", "n", "s">>,
    
     keywords |-> <<<<"s", "o", "l", "u", "t", "i", "o", "n">>, <<"s", "t", "r", "a", "t", "e", "g", "y">>, <<"a", "p", "p", "r", "o", "a", "c", "h">>, <<"c", "o", "p", "e">>, <<"m", "a", "n", "a", "g", "e">>, <<"h", "a", "n", "d", "l", "e">>>>],
    [name |-> <<"E", "m", "o", "t", "i", "o", "n", "a", "l", " ", "E", "x", "p", "e", "r", "i", "e", "n", "c", "e", "s">>,
    
     keywords |-> <<<<"f", "e", "e", "l">>, <<"e", "m", "o", "t", "i", "o", "n">>, <<"h", "a", "p", "p", "y">>, <<"s", "a", "d">>, <<"a", "n", "g", "r", "y">>, <<"f", "r", "u", "s", "t", "r", "a", "t", "e", "d">>, <<"a", "n", "x", "i", "o", "u", "s">>>>],
    [name |-> <<"R", "e", "l", "a", "t", "i", "o", "n", "s", "h", "i", "p", "s", " ", "a", "n", "d", " ", "I", "n", "t", "e", "r", "a", "c", "t", "i", "o", "n", "s">>,
    
     keywords |-> <<<<"r", "e", "l", "a", "t", "i", "o", "n", "s", "h", "i", "p">>, <<"i", "n", "t", "e", "r", "a", "c", "t", "i", "o", "n">>, <<"c", "o", "n", "n", "e", "c", "t", "i", "o", "n">>, <<"c", "o", "m", "m", "u", "n", "i", "c", "a", "t", "i", "o", "n">>, <<"s", "u", "p", "p", "o", "r", "t">>>>],
    [name |-> <<"I", "d", "e", "n", "t", "i", "t", "y", " ", "a", "n", "d", " ", "S", "e", "l", "f", "-", "C", "o", "n", "c", "e", "p", "t">>,
    
     keywords |-> <<<<"i", "d", "e", "n", "t", "i", "t", "y">>, <<"s", "e", "l", "f">>, <<"w", "h", "o">>, <<"p", "e", "r", "s", "o", "n", "a", "l">>, <<"i", "n", "d", "i", "v", "i", "d", "u", "a", "l">>>>] >>

\* the filter of deductiveThemeExtraction: the name as it is, the definition
\* lower-cased
MatchesFramework(code, framework) ==
    \E k \in 1..Len(framework.keywords) :
        \/ Includes(code.name, framework.keywords[k])
        \/ Includes(ToLowerCase(code.definition), framework.keywords[k])

\* ThemeEngine.deductiveThemeExtraction
DeductiveThemeExtraction(codes, depth) ==
    LET Matching(f) == SelectSeq(codes, LAMBDA c : MatchesFramework(c, f))
        hit == SelectSeq(TheoreticalFrameworks, LAMBDA f : Len(Matching(f)) > 0)
        themes == [i \in 1..Len(hit) |->
            [name |-> hit[i].name,
             description |-> <<"Theme identified through deductive analysis based on theoretical framework">>,
             supportingCodes |-> Names(Matching(hit[i])),
             prevalence |-> CalculatePrevalence(Matching(hit[i]), codes),
             examples |-> Slice(FlatExamples(Matching(hit[i])), 3),
             subThemes |-> NoSubThemes]]
    IN  SortByPrevalence(themes)

\* ThemeEngine.extractThemes
ExtractThemesOf(codes, mode, depth) ==
    IF mode = "inductive" THEN InductiveThemeExtraction(codes, depth)
    ELSE DeductiveThemeExtraction(codes, depth)

-----------------------------------------------------------------------------
(* ThemeEngine.analyzePatterns *)

\* sharedExamples of findCoOccurrences
SharedExamples(code1, code2) ==
    SelectSeq(code1.examples, LAMBDA ex :
        \E k \in 1..Len(code2.examples) :
            LET ex2 == code2.examples[k]
            IN  ex = ex2 \/ Includes(ex, ex2) \/ Includes(ex2, ex))

\* the pattern findCoOccurrences pushes for codes[i], codes[j]
CoOccurrence(code1, code2) ==
    LET shared == SharedExamples(code1, code2)
    IN  [type |-> "co-occurrence",
         description |-> <<code1.name, " and ", code2.name, " frequently occur together">>,
         elements |-> <<code1.name, code2.name>>,
         frequency |-> Len(shared),
         significance |-> IF Len(shared) > 2 THEN "high" ELSE "medium"]

\* ThemeEngine.findCoOccurrences: i < j, in the order of the two loops
RECURSIVE CoOccurrencesFrom(_, _, _)
CoOccurrencesFrom(codes, i, j) ==
    IF i > Len(codes) THEN <<>>
    ELSE IF j > Len(codes) THEN CoOccurrencesFrom(codes, i + 1, i + 2)
    ELSE (IF Len(SharedExamples(codes[i], codes[j])) > 0
          THEN <<CoOccurrence(codes[i], codes[j])>> ELSE <<>>)
             \o CoOccurrencesFrom(codes, i, j + 1)

FindCoOccurrences(codes) == CoOccurrencesFrom(codes, 1, 2)

\* the oppositions of findContrasts, in order
ContrastOppositions == <<
    <<<<"p", "o", "s", "i", "t", "i", "v", "e">>, <<"n", "e", "g", "a", "t", "i", "v", "e">>>>,
    <<<<"e", "a", "s", "y">>, <<"d", "i", "f", "f", "i", "c", "u", "l", "t">>>>,
    <<<<"s", "u", "c", "c", "e", "s", "s">>, <<"f", "a", "i", "l", "u", "r", "e">>>>,
    <<<<"b", "e", "f", "o", "r", "e">>, <<"a", "f", "t", "e", "r">>>>,
    <<<<"c", "h", "a", "l", "l", "e", "n", "g", "e">>, <<"s", "o", "l", "u", "t", "i", "o", "n">>>> >>

\* ThemeEngine.findContrasts
FindContrasts(codes) ==
    LET With(term) == SelectSeq(codes, LAMBDA c : Includes(c.name, term))
        hit == SelectSeq(ContrastOppositions, LAMBDA o :
                   Len(With(o[1])) > 0 /\ Len(With(o[2])) > 0)
    IN  [i \in 1..Len(hit) |->
            [type |-> "contrast",
             description |-> <<"Contrast between ", hit[i][1], " and ", hit[i][2], " concepts">>,
             elements |-> Names(With(hit[i][1])) \o Names(With(hit[i][2])),
             frequency |-> Len(With(hit[i][1])) + Len(With(hit[i][2])),
             significance |-> "high"]]

\* the indices of potentialChildren: c !== code, c.name.startsWith(code.name)
PotentialChildren(codes, i) ==
    SelectSeq([j \in 1..Len(codes) |-> j], LAMBDA j :
        j # i /\ StartsWith(codes[j].name, codes[i].name))

\* ThemeEngine.findHierarchies
FindHierarchies(codes) ==
    LET parents == SelectSeq([i \in 1..Len(codes) |-> i], LAMBDA i :
                       Len(PotentialChildren(codes, i)) > 0)
    IN  [k \in 1..Len(parents) |->
            LET i == parents[k]
                children == PotentialChildren(codes, i)
            IN  [type |-> "hierarchy",
                 description |-> <<codes[i].name, " is a parent concept with ",
                                   Len(children), " sub-categories">>,
                 elements |-> <<codes[i].name>> \o [c \in 1..Len(children) |->
                                                      codes[children[c]].name],
                 frequency |-> Len(children),
                 significance |-> "medium"]]

\* sigOrder of analyzePatterns
SigOrder(sig) == CASE sig = "high" -> 3 [] sig = "medium" -> 2 [] sig = "low" -> 1

\* patterns.sort((a, b) => sigOrder[b.significance] - sigOrder[a.significance])
RECURSIVE InsertBySignificance(_, _)
InsertBySignificance(sorted, p) ==
    IF sorted = <<>> THEN <<p>>
    ELSE IF SigOrder(Head(sorted).significance) >= SigOrder(p.significance)
         THEN <<Head(sorted)>> \o InsertBySignificance(Tail(sorted), p)
         ELSE <<p>> \o sorted

RECURSIVE SortBySignificance(_)
SortBySignificance(patterns) ==
    IF patterns = <<>> THEN <<>>
    ELSE InsertBySignificance(
             SortBySignificance(SubSeq(patterns, 1, Len(patterns) - 1)),
             patterns[Len(patterns)])

\* ThemeEngine.analyzePatterns
AnalyzePatternsOf(codes) ==
    SortBySignificance(FindCoOccurrences(codes) \o FindContrasts(codes)
                           \o FindHierarchies(codes))

-----------------------------------------------------------------------------
(* ThemeEngine.findNegativeCases *)

\* the oppositions of detectContradiction, in order
ContradictionOppositions == <<
    [positive |-> <<"p", "o", "s", "i", "t", "i", "v", "e">>, negative |-> <<"n", "e", "g", "a", "t", "i", "v", "e">>, strength |-> "strong"],
    [positive |-> <<"s", "u", "c", "c", "e", "s", "s">>, negative |-> <<"f", "a", "i", "l", "u", "r", "e">>, strength |-> "strong"],
    [positive |-> <<"e", "a", "s", "y">>, negative |-> <<"d", "i", "f", "f", "i", "c", "u", "l", "t">>, strength |-> "moderate"],
    [positive |-> <<"s", "u", "p", "p", "o", "r", "t">>, negative |-> <<"o", "b", "s", "t", "a", "c", "l", "e">>, strength |-> "moderate"],
    [positive |-> <<"b", "e", "n", "e", "f", "i", "t">>, negative |-> <<"c", "o", "s", "t">>, strength |-> "moderate"] >>

\* ThemeEngine.detectContradiction from opposition k on; found = FALSE is null
RECURSIVE DetectContradictionFrom(_, _, _)
DetectContradictionFrom(themeName, code, k) ==
    IF k > Len(ContradictionOppositions)
    THEN [found |-> FALSE, reason |-> <<>>, strength |-> "none"]
    ELSE LET o == ContradictionOppositions[k]
             codeName == ToLowerCase(code.name)
             codeDefinition == ToLowerCase(code.definition)
         IN  IF Includes(themeName, o.positive)
                /\ (Includes(codeName, o.negative) \/ Includes(codeDefinition, o.negative))
             THEN [found |-> TRUE, reason |-> <<o.positive, o.negative>>,
                   strength |-> o.strength]
             ELSE IF Includes(themeName, o.negative)
                     /\ (Includes(codeName, o.positive)
                            \/ Includes(codeDefinition, o.positive))
             THEN [found |-> TRUE, reason |-> <<o.negative, o.positive>>,
                   strength |-> o.strength]
             ELSE DetectContradictionFrom(themeName, code, k + 1)

\* detectContradiction, were the oppositions of moderate strength graded weak
DetectContradictionGraded(themeName, code) ==
    LET contradiction == DetectContradictionFrom(themeName, code, 1)
    IN  IF contradiction.strength = "moderate"
        THEN [contradiction EXCEPT !.strength = "weak"]
        ELSE contradiction

DetectContradiction(themeName, code) == DetectContradictionFrom(themeName, code, 1)

\* the loop of findNegativeCases over allCodes
NegativeCases(theme, allCodes) ==
    LET themeName == ToLowerCase(theme.name)
        candidates == SelectSeq(allCodes, LAMBDA c :
            /\ ~Contains(theme.supportingCodes, c.name)
            /\ DetectContradiction(themeName, c).found)
    IN  [i \in 1..Len(candidates) |->
            LET contradiction == DetectContradiction(themeName, candidates[i])
            IN  [code |-> candidates[i].name,
                 contradiction |-> contradiction.reason,
                 strength |-> contradiction.strength]]

\* the threshold filter, were 'moderate' to keep the moderate cases only
KeepsCaseOfStrength(threshold, nc) ==
    IF threshold = "weak" THEN TRUE ELSE nc.strength = threshold

\* the threshold filter of findNegativeCases
KeepsCase(threshold, nc) ==
    IF threshold = "weak" THEN TRUE
    ELSE IF threshold = "moderate" THEN nc.strength # "weak"
    ELSE nc.strength = "strong"

\* the recommendation of findNegativeCases, banded by the filtered count
NegativeCaseRecommendation(n) ==
    IF n = 0 THEN <<"No significant negative cases found. Theme appears robust.">>
    ELSE IF n <= 2
    THEN <<n, " negative case(s) found. Consider refining theme definition to account for these exceptions.">>
    ELSE <<n, " negative cases found. Theme may need significant revision or should be split into multiple themes.">>

\* ThemeEngine.findNegativeCases
FindNegativeCasesOf(theme, allCodes, threshold) ==
    LET filtered == SelectSeq(NegativeCases(theme, allCodes),
                              LAMBDA nc : KeepsCase(threshold, nc))
    IN  [negativeCases |-> filtered,
         recommendation |-> NegativeCaseRecommendation(Len(filtered))]

-----------------------------------------------------------------------------
(* ThemeEngine.detectSaturation *)

\* the body of the loop, were it to leave seenCodes alone
SaturationStepUnseen(locals, sourceCodes) ==
    [newCodesPerSource |-> Append(locals.newCodesPerSource, Len(sourceCodes)),
     seenCodes |-> locals.seenCodes,
     next |-> locals.next + 1]

\* the body of the loop over the sources: count the source's unseen codes,
\* push the count, then add their names to seenCodes
SaturationStep(locals, sourceCodes) ==
    LET newCodes == SelectSeq(sourceCodes, LAMBDA c : c.name \notin locals.seenCodes)
    IN  [newCodesPerSource |-> Append(locals.newCodesPerSource, Len(newCodes)),
         seenCodes |-> locals.seenCodes \cup {newCodes[i].name : i \in 1..Len(newCodes)},
         next |-> locals.next + 1]

\* newCodesPerSource.slice(-3)
LastThree(seq) == SubSeq(seq, Max(1, Len(seq) - 2), Len(seq))

RECURSIVE SumSeq(_)
SumSeq(seq) == IF seq = <<>> THEN 0 ELSE Head(seq) + SumSeq(Tail(seq))

\* recentSources.reduce((a, b) => a + b, 0) / recentSources.length
AvgNewCodes(recentSources) ==
    IF Len(recentSources) = 0 THEN NaN
    ELSE Frac(SumSeq(recentSources), Len(recentSources))

\* the rate, were it the share of new codes, Math.min(avgNewCodes / 5, 1),
\* and not its complement
SaturationRateOfNewCodes(avgNewCodes) ==
    IF avgNewCodes.nan THEN NaN
    ELSE LET ratio == Frac(avgNewCodes.num, avgNewCodes.den * 5)
         IN  IF FracGt(ratio, Frac(1, 1)) THEN Frac(1, 1) ELSE ratio

\* 1 - Math.min(avgNewCodes / 5, 1); Math.min of NaN is NaN
SaturationRate(avgNewCodes) ==
    IF avgNewCodes.nan THEN NaN
    ELSE LET ratio == Frac(avgNewCodes.num, avgNewCodes.den * 5)
             capped == IF FracGt(ratio, Frac(1, 1)) THEN Frac(1, 1) ELSE ratio
         IN  Frac(capped.den - capped.num, capped.den)

\* the saturation test, were its threshold 0.8 and inclusive
SaturatedFromFourFifths(saturationRate) ==
    ~saturationRate.nan /\ ~FracGt(Frac(8, 10), saturationRate)

\* saturationRate > 0.85
Saturated(saturationRate) == FracGt(saturationRate, Frac(85, 100))

\* the recommendation of detectSaturation
SaturationRecommendation(level, saturationRate) ==
    IF Saturated(saturationRate)
    THEN <<"Saturation achieved at ", level, " level. You likely have enough data.">>
    ELSE IF FracGt(saturationRate, Frac(7, 10))
    THEN <<"Approaching saturation. 2-3 more data sources recommended.">>
    ELSE <<"Not yet saturated. Continue data collection for robust findings.">>

\* what detectSaturation returns once its loop has run
SaturationAnalysis(level, newCodesPerSource) ==
    LET saturationRate == SaturationRate(AvgNewCodes(LastThree(newCodesPerSource)))
    IN  [level |-> level,
         saturated |-> Saturated(saturationRate),
         saturationRate |-> saturationRate,
         newCodesPerSource |-> newCodesPerSource,
         recommendation |-> SaturationRecommendation(level, saturationRate)]

-----------------------------------------------------------------------------
(* TheoryEngine.buildGroundedTheory, stage 1: open coding *)

\* TheoryEngine.inferCategoryName: the ordered decision list
InferCategoryName(code) ==
    LET name == ToLowerCase(code.name)
        definition == ToLowerCase(code.definition)
        words == SelectSeq(SplitName(name), LAMBDA w : Len(w) > 3)
    IN  IF EndsWith(name, <<"i", "n", "g">>) \/ TestAny({<<"p", "r", "o", "c", "e", "s", "s">>, <<"a", "c", "t", "i", "o", "n">>, <<"d", "o", "i", "n", "g">>}, definition)
        THEN <<"p", "r", "o", "c", "e", "s", "s", "e", "s">>
        ELSE IF TestAny({<<"c", "o", "n", "d", "i", "t", "i", "o", "n">>, <<"s", "i", "t", "u", "a", "t", "i", "o", "n">>, <<"c", "o", "n", "t", "e", "x", "t">>, <<"w", "h", "e", "n">>}, definition)
                \/ TestAny({<<"c", "o", "n", "d", "i", "t", "i", "o", "n">>}, name)
        THEN <<"c", "o", "n", "d", "i", "t", "i", "o", "n", "s">>
        ELSE IF TestAny({<<"s", "t", "r", "a", "t", "e", "g", "y">>, <<"a", "p", "p", "r", "o", "a", "c", "h">>, <<"c", "o", "p", "e">>, <<"m", "a", "n", "a", "g", "e">>, <<"h", "a", "n", "d", "l", "e">>}, definition)
                \/ TestAny({<<"s", "t", "r", "a", "t", "e", "g", "y">>, <<"c", "o", "p", "i", "n", "g">>}, name)
        THEN <<"s", "t", "r", "a", "t", "e", "g", "i", "e", "s">>
        ELSE IF TestAny({<<"e", "m", "o", "t", "i", "o", "n">>, <<"f", "e", "e", "l">>}, definition) \/ TestAny({<<"e", "m", "o", "t", "i", "o", "n">>, <<"f", "e", "e", "l">>}, name)
        THEN <<"e", "m", "o", "t", "i", "o", "n", "s">>
        ELSE IF TestAny({<<"c", "h", "a", "l", "l", "e", "n", "g", "e">>, <<"p", "r", "o", "b", "l", "e", "m">>, <<"d", "i", "f", "f", "i", "c", "u", "l", "t", "y">>, <<"b", "a", "r", "r", "i", "e", "r">>}, definition)
                \/ TestAny({<<"c", "h", "a", "l", "l", "e", "n", "g", "e">>, <<"p", "r", "o", "b", "l", "e", "m">>}, name)
        THEN <<"c", "h", "a", "l", "l", "e", "n", "g", "e", "s">>
        ELSE IF TestAny({<<"o", "u", "t", "c", "o", "m", "e">>, <<"r", "e", "s", "u", "l", "t">>, <<"c", "o", "n", "s", "e", "q", "u", "e", "n", "c", "e">>, <<"e", "f", "f", "e", "c", "t">>}, definition)
                \/ TestAny({<<"o", "u", "t", "c", "o", "m", "e">>, <<"r", "e", "s", "u", "l", "t">>}, name)
        THEN <<"o", "u", "t", "c", "o", "m", "e", "s">>
        ELSE IF TestAny({<<"r", "e", "l", "a", "t", "i", "o", "n", "s", "h", "i", "p">>, <<"i", "n", "t", "e", "r", "a", "c", "t", "i", "o", "n">>, <<"c", "o", "n", "n", "e", "c", "t", "i", "o", "n">>}, definition)
                \/ TestAny({<<"r", "e", "l", "a", "t", "i", "o", "n", "a", "l">>}, name)
        THEN <<"r", "e", "l", "a", "t", "i", "o", "n", "s", "h", "i", "p", "s">>
        ELSE IF Len(words) > 0 /\ words[1] # <<>> THEN words[1] ELSE <<"m", "i", "s", "c", "e", "l", "l", "a", "n", "e", "o", "u", "s">>

\* the first loop of groupCodesIntoCategories: a Map from category name to codes
RECURSIVE CategoryGroups(_, _)
CategoryGroups(codes, groups) ==
    IF codes = <<>> THEN groups
    ELSE LET code == Head(codes)
             categoryName == InferCategoryName(code)
             at == {i \in 1..Len(groups) : groups[i].key = categoryName}
         IN  IF at = {}
             THEN CategoryGroups(Tail(codes),
                      Append(groups, [key |-> categoryName, codes |-> <<code>>]))
             ELSE CategoryGroups(Tail(codes),
                      [i \in 1..Len(groups) |->
                          IF i \in at
                          THEN [groups[i] EXCEPT !.codes = Append(@, code)]
                          ELSE groups[i]])

\* TheoryEngine.categoriesAreSimilar
CategoriesAreSimilar(cat1, cat2) ==
    \/ cat1 = cat2
    \/ cat1 = cat2 \o <<"s">> \/ cat2 = cat1 \o <<"s">>
    \/ cat1 = cat2 \o <<"e", "s">> \/ cat2 = cat1 \o <<"e", "s">>
    \/ CommonWords(SplitName(cat1), SplitName(cat2)) > 0

\* TheoryEngine.mergeSimilarCategories: the first similar merged key wins
RECURSIVE MergeSimilarCategoriesRec(_, _)
MergeSimilarCategoriesRec(groups, merged) ==
    IF groups = <<>> THEN merged
    ELSE LET category == Head(groups).key
             hits == {i \in 1..Len(merged) : CategoriesAreSimilar(category, merged[i].key)}
         IN  IF hits # {}
             THEN LET g == CHOOSE i \in hits : \A j \in hits : i <= j
                  IN  MergeSimilarCategoriesRec(Tail(groups),
                          [merged EXCEPT ![g].codes = @ \o Head(groups).codes])
             ELSE MergeSimilarCategoriesRec(Tail(groups),
                      MapSet(merged, category, Head(groups).codes))

\* groupCodesIntoCategories, were it to return the groups unmerged
KeepCategories(groups) == groups

MergeSimilarCategories(groups) == MergeSimilarCategoriesRec(groups, <<>>)

\* TheoryEngine.groupCodesIntoCategories
GroupCodesIntoCategories(codes) == MergeSimilarCategories(CategoryGroups(codes, <<>>))

\* TheoryEngine.isCommonWord
IsCommonWord(word) ==
    ToLowerCase(word) \in {<<"t", "h", "e">>, <<"a", "n", "d">>, <<"f", "o", "r">>, <<"w", "i", "t", "h">>, <<"f", "r", "o", "m">>, <<"t", "h", "a", "t">>, <<"t", "h", "i", "s">>,
                           <<"h", "a", "v", "e">>, <<"h", "a", "s">>, <<"h", "a", "d">>, <<"w", "a", "s">>, <<"w", "e", "r", "e">>, <<"b", "e", "e", "n">>, <<"b", "e", "i", "n", "g">>}

RECURSIVE NameWords(_)
NameWords(codes) ==
    IF codes = <<>> THEN <<>> ELSE SplitName(Head(codes).name) \o NameWords(Tail(codes))

\* TheoryEngine.identifyProperties
IdentifyProperties(codes) ==
    Slice(Distinct(SelectSeq(NameWords(codes),
                       LAMBDA w : Len(w) > 3 /\ ~IsCommonWord(w)), <<>>), 5)

\* TheoryEngine.inferDimensionalRange
InferDimensionalRange(property, codes) ==
    IF \E i \in 1..Len(codes) :
           TestAny({<<"l", "o", "w">>, <<"h", "i", "g", "h">>, <<"s", "t", "r", "o", "n", "g">>, <<"w", "e", "a", "k">>, <<"i", "n", "t", "e", "n", "s", "e">>, <<"m", "i", "l", "d">>},
                   ToLowerCase(codes[i].definition))
    THEN "low to high"
    ELSE IF \E i \in 1..Len(codes) :
           TestAny({<<"o", "f", "t", "e", "n">>, <<"s", "o", "m", "e", "t", "i", "m", "e", "s">>, <<"r", "a", "r", "e", "l", "y">>, <<"a", "l", "w", "a", "y", "s">>, <<"n", "e", "v", "e", "r">>},
                   ToLowerCase(codes[i].definition))
    THEN "rarely to frequently"
    ELSE "varies across contexts"

\* TheoryEngine.identifyDimensions
IdentifyDimensions(codes) ==
    LET properties == IdentifyProperties(codes)
    IN  [i \in 1..Len(properties) |->
            [property |-> properties[i],
             range |-> InferDimensionalRange(properties[i], codes)]]

\* TheoryEngine.generateCategoryDescription: the template's parts
GenerateCategoryDescription(codes, paradigm) ==
    <<IF paradigm = "constructivist"
      THEN "This category represents participants' experiences of"
      ELSE "This category describes the phenomenon of",
      Names(codes), Len(codes)>>

\* identifyCategories, were a category to need two codes to survive
IdentifyCategoriesOfTwo(codes, paradigm) ==
    LET groups == SelectSeq(GroupCodesIntoCategories(codes),
                            LAMBDA g : ~(Len(g.codes) < 2))
    IN  [i \in 1..Len(groups) |->
            [name |-> groups[i].key,
             description |-> GenerateCategoryDescription(groups[i].codes, paradigm),
             properties |-> IdentifyProperties(groups[i].codes),
             dimensions |-> IdentifyDimensions(groups[i].codes),
             relatedCodes |-> Names(groups[i].codes),
             relatedCategories |-> <<>>,
             examples |-> Slice(FlatExamples(groups[i].codes), 3)]]

\* TheoryEngine.identifyCategories
IdentifyCategories(codes, paradigm) ==
    LET groups == SelectSeq(GroupCodesIntoCategories(codes),
                            LAMBDA g : ~(Len(g.codes) < 1))
    IN  [i \in 1..Len(groups) |->
            [name |-> groups[i].key,
             description |-> GenerateCategoryDescription(groups[i].codes, paradigm),
             properties |-> IdentifyProperties(groups[i].codes),
             dimensions |-> IdentifyDimensions(groups[i].codes),
             relatedCodes |-> Names(groups[i].codes),
             relatedCategories |-> <<>>,
             examples |-> Slice(FlatExamples(groups[i].codes), 3)]]

-----------------------------------------------------------------------------
(* TheoryEngine.groupCodesIntoCategories: the arrays it writes *)

\* The arrays of groupCodesIntoCategories, by reference: array 1 is the codes
\* array of the caller, groups.set(categoryName, []) makes a new array and
\* groups.get(categoryName).push(code) writes it.
RECURSIVE CategoryArrays(_, _, _)
CategoryArrays(arrays, groups, i) ==
    IF i > Len(arrays[1]) THEN [arrays |-> arrays, groups |-> groups]
    ELSE LET code == arrays[1][i]
             categoryName == InferCategoryName(code)
             at == {g \in 1..Len(groups) : groups[g].key = categoryName}
         IN  IF at = {}
             THEN CategoryArrays(Append(arrays, <<code>>),
                      Append(groups, [key |-> categoryName, ref |-> Len(arrays) + 1]),
                      i + 1)
             ELSE LET ref == groups[CHOOSE g \in at : TRUE].ref
                  IN  CategoryArrays([arrays EXCEPT ![ref] = Append(@, code)],
                                     groups, i + 1)

\* mergeSimilarCategories by reference: merged.set(category, groups.get(category))
\* shares the array of groups, and mergedCodes.push(...) writes that array
RECURSIVE MergeCategoryArrays(_, _, _)
MergeCategoryArrays(arrays, groups, merged) ==
    IF groups = <<>> THEN arrays
    ELSE LET category == Head(groups).key
             hits == {m \in 1..Len(merged) : CategoriesAreSimilar(category, merged[m].key)}
         IN  IF hits # {}
             THEN LET ref == merged[CHOOSE m \in hits : \A h \in hits : m <= h].ref
                  IN  MergeCategoryArrays(
                          [arrays EXCEPT ![ref] = @ \o arrays[Head(groups).ref]],
                          Tail(groups), merged)
             ELSE MergeCategoryArrays(arrays, Tail(groups), Append(merged, Head(groups)))

\* the caller's codes array once buildGroundedTheory has returned
CodesAfterTheory(codes) ==
    LET grouped == CategoryArrays(<<codes>>, <<>>, 1)
    IN  MergeCategoryArrays(grouped.arrays, grouped.groups, <<>>)[1]

-----------------------------------------------------------------------------
(* TheoryEngine.buildGroundedTheory, stage 2: axial coding *)

\* codes.filter(c => regexp.test(c.definition.toLowerCase())).map(c => c.name).slice(0, 3)
CodeNamesDefining(codes, terms) ==
    Slice(Names(SelectSeq(codes, LAMBDA c : TestAny(terms, ToLowerCase(c.definition)))), 3)

\* TheoryEngine.identifyCausalConditions: skips the category itself
IdentifyCausalConditions(category, allCategories, codes) ==
    Names(SelectSeq(allCategories, LAMBDA other :
        /\ other.name # category.name
        /\ (Includes(other.name, <<"c", "o", "n", "d", "i", "t", "i", "o", "n">>) \/ Includes(other.name, <<"c", "a", "u", "s", "e">>))))
    \o CodeNamesDefining(codes, {<<"b", "e", "c", "a", "u", "s", "e">>, <<"d", "u", "e", " ", "t", "o">>, <<"c", "a", "u", "s", "e", "d", " ", "b", "y">>, <<"r", "e", "s", "u", "l", "t", " ", "o", "f">>, <<"l", "e", "d", " ", "t", "o">>})

\* TheoryEngine.identifyContext: does not skip the category itself
IdentifyContext(category, allCategories, codes) ==
    Names(SelectSeq(allCategories, LAMBDA other :
        Includes(other.name, <<"c", "o", "n", "t", "e", "x", "t">>) \/ Includes(other.name, <<"s", "i", "t", "u", "a", "t", "i", "o", "n">>)))
    \o CodeNamesDefining(codes, {<<"w", "h", "e", "n">>, <<"w", "h", "e", "r", "e">>, <<"s", "i", "t", "u", "a", "t", "i", "o", "n">>, <<"c", "o", "n", "t", "e", "x", "t">>, <<"e", "n", "v", "i", "r", "o", "n", "m", "e", "n", "t">>})

\* TheoryEngine.identifyInterveningConditions: skips the category itself
IdentifyInterveningConditions(category, allCategories) ==
    Names(SelectSeq(allCategories, LAMBDA other :
        /\ other.name # category.name
        /\ (\/ Includes(other.name, <<"f", "a", "c", "t", "o", "r">>)
            \/ Includes(other.name, <<"i", "n", "f", "l", "u", "e", "n", "c", "e">>)
            \/ Includes(other.name, <<"b", "a", "r", "r", "i", "e", "r">>))))

\* TheoryEngine.identifyActionStrategies: does not skip the category itself
IdentifyActionStrategies(category, allCategories) ==
    Names(SelectSeq(allCategories, LAMBDA other :
        \/ Includes(other.name, <<"s", "t", "r", "a", "t", "e", "g", "y">>)
        \/ Includes(other.name, <<"c", "o", "p", "i", "n", "g">>)
        \/ Includes(other.name, <<"a", "p", "p", "r", "o", "a", "c", "h">>)
        \/ Includes(other.name, <<"p", "r", "o", "c", "e", "s", "s">>)))

\* TheoryEngine.identifyConsequences: does not skip the category itself
IdentifyConsequences(category, allCategories, codes) ==
    Names(SelectSeq(allCategories, LAMBDA other :
        \/ Includes(other.name, <<"o", "u", "t", "c", "o", "m", "e">>)
        \/ Includes(other.name, <<"r", "e", "s", "u", "l", "t">>)
        \/ Includes(other.name, <<"c", "o", "n", "s", "e", "q", "u", "e", "n", "c", "e">>)
        \/ Includes(other.name, <<"e", "f", "f", "e", "c", "t">>)))
    \o CodeNamesDefining(codes, {<<"r", "e", "s", "u", "l", "t">>, <<"o", "u", "t", "c", "o", "m", "e">>, <<"l", "e", "d", " ", "t", "o">>, <<"c", "a", "u", "s", "e", "d">>, <<"e", "f", "f", "e", "c", "t">>})

\* TheoryEngine.analyzeParadigmModel
AnalyzeParadigmModel(category, allCategories, codes) ==
    [phenomenon |-> category.name,
     causalConditions |-> IdentifyCausalConditions(category, allCategories, codes),
     context |-> IdentifyContext(category, allCategories, codes),
     interveningConditions |-> IdentifyInterveningConditions(category, allCategories),
     actionStrategies |-> IdentifyActionStrategies(category, allCategories),
     consequences |-> IdentifyConsequences(category, allCategories, codes)]

\* TheoryEngine.performAxialCoding
PerformAxialCoding(categories, codes) ==
    [i \in 1..Len(categories) |-> AnalyzeParadigmModel(categories[i], categories, codes)]

-----------------------------------------------------------------------------
(* TheoryEngine.buildGroundedTheory, stage 3: selective coding *)

\* Array.prototype.find by name: the index of the first match, 0 for undefined
FindAxial(axialResults, name) ==
    LET hits == {i \in 1..Len(axialResults) : axialResults[i].phenomenon = name}
    IN  IF hits = {} THEN 0 ELSE CHOOSE i \in hits : \A j \in hits : i <= j

\* the lookup of the core category, were it to pass over the categories of a
\* single code
FindCategoryOfTwo(categories, name) ==
    LET hits == {i \in 1..Len(categories) :
                    categories[i].name = name /\ Len(categories[i].relatedCodes) >= 2}
    IN  IF hits = {} THEN 0 ELSE CHOOSE i \in hits : \A j \in hits : i <= j

\* categories.find(c => c.name === coreName)
FindCategory(categories, name) ==
    LET hits == {i \in 1..Len(categories) : categories[i].name = name}
    IN  IF hits = {} THEN 0 ELSE CHOOSE i \in hits : \A j \in hits : i <= j

\* twice the centrality score of identifyCoreCategory (its weight 1.5 made whole)
CategoryScore2(category, axialResults) ==
    LET a == FindAxial(axialResults, category.name)
    IN  2 * Len(category.relatedCodes)
        + (IF a = 0 THEN 0
           ELSE 4 * Len(axialResults[a].causalConditions)
                + 4 * Len(axialResults[a].consequences)
                + 3 * Len(axialResults[a].actionStrategies)
                + 2 * Len(axialResults[a].context)
                + 2 * Len(axialResults[a].interveningConditions))

\* categoryScores: a Map from category name to score, in insertion order
RECURSIVE CategoryScores(_, _, _)
CategoryScores(categories, axialResults, scores) ==
    IF categories = <<>> THEN scores
    ELSE LET k == Head(categories).name
             v == CategoryScore2(Head(categories), axialResults)
             at == {i \in 1..Len(scores) : scores[i].key = k}
         IN  CategoryScores(Tail(categories), axialResults,
                 IF at = {} THEN Append(scores, [key |-> k, score |-> v])
                 ELSE [i \in 1..Len(scores) |->
                          IF i \in at THEN [key |-> k, score |-> v] ELSE scores[i]])

\* the insertion of the sort, were an equal score to go before the earlier one
RECURSIVE InsertBeforeEqualScore(_, _)
InsertBeforeEqualScore(sorted, e) ==
    IF sorted = <<>> THEN <<e>>
    ELSE IF Head(sorted).score > e.score
         THEN <<Head(sorted)>> \o InsertBeforeEqualScore(Tail(sorted), e)
         ELSE <<e>> \o sorted

\* sort((a, b) => b[1] - a[1]): stable, highest score first
RECURSIVE InsertByScore(_, _)
InsertByScore(sorted, e) ==
    IF sorted = <<>> THEN <<e>>
    ELSE IF Head(sorted).score >= e.score
         THEN <<Head(sorted)>> \o InsertByScore(Tail(sorted), e)
         ELSE <<e>> \o sorted

RECURSIVE SortByScore(_)
SortByScore(scores) ==
    IF scores = <<>> THEN <<>>
    ELSE InsertByScore(SortByScore(SubSeq(scores, 1, Len(scores) - 1)),
                       scores[Len(scores)])

\* the total of the scores, were it the number of scored categories
CountScores(scores) == Len(scores)

RECURSIVE SumScores(_)
SumScores(scores) ==
    IF scores = <<>> THEN 0 ELSE Head(scores).score + SumScores(Tail(scores))

\* the relationships of the core category: causes, then leads_to, then influences
CoreRelationships(coreAxial) ==
    LET coreName == coreAxial.phenomenon
    IN  [i \in 1..Len(coreAxial.causalConditions) |->
            [relatedCategory |-> coreAxial.causalConditions[i],
             relationshipType |-> "causes",
             description |-> <<coreAxial.causalConditions[i],
                               " contributes to the emergence of ", coreName>>]]
        \o [i \in 1..Len(coreAxial.consequences) |->
            [relatedCategory |-> coreAxial.consequences[i],
             relationshipType |-> "leads_to",
             description |-> <<coreName, " results in ", coreAxial.consequences[i]>>]]
        \o [i \in 1..Len(coreAxial.actionStrategies) |->
            [relatedCategory |-> coreAxial.actionStrategies[i],
             relationshipType |-> "influences",
             description |-> <<coreName, " is managed through ",
                               coreAxial.actionStrategies[i]>>]]

\* TheoryEngine.generateTheoreticalMemo: the parts the memo recites
GenerateTheoreticalMemo(category, hasAxial, axialResult, researchQuestion) ==
    [about |-> category.name,
     researchQuestion |-> researchQuestion,
     causes |-> IF hasAxial THEN axialResult.causalConditions ELSE <<>>,
     context |-> IF hasAxial THEN axialResult.context ELSE <<>>,
     strategies |-> IF hasAxial THEN axialResult.actionStrategies ELSE <<>>,
     consequences |-> IF hasAxial THEN axialResult.consequences ELSE <<>>,
     integrates |-> Len(category.relatedCodes)]

NoCategoriesMessage ==
    "No categories found. Please ensure your codes can form at least one category."

NoAxial ==
    [phenomenon |-> <<>>, causalConditions |-> <<>>, context |-> <<>>,
     interveningConditions |-> <<>>, actionStrategies |-> <<>>, consequences |-> <<>>]

\* identifyCoreCategory, were it to lack the throw on an empty score list and
\* fail at the lookup of the core category instead
IdentifyCoreCategoryUnguarded(categories, axialResults, researchQuestion) ==
    [threw |-> TRUE, message |-> "Core category not found in categories list."]

\* TheoryEngine.identifyCoreCategory; threw = TRUE is the Error it throws
IdentifyCoreCategory(categories, axialResults, researchQuestion) ==
    LET categoryScores == CategoryScores(categories, axialResults, <<>>)
        sorted == SortByScore(categoryScores)
    IN  IF Len(sorted) = 0
        THEN [threw |-> TRUE, message |-> NoCategoriesMessage]
        ELSE LET coreName == sorted[1].key
                 coreScore == sorted[1].score
                 c == FindCategory(categories, coreName)
             IN  IF c = 0
                 THEN [threw |-> TRUE,
                       message |-> "Core category not found in categories list."]
                 ELSE LET a == FindAxial(axialResults, coreName)
                          coreAxial == IF a = 0 THEN NoAxial ELSE axialResults[a]
                          totalScore == SumScores(categoryScores)
                      IN  [threw |-> FALSE,
                           name |-> coreName,
                           description |-> categories[c].description,
                           centrality |-> IF totalScore > 0
                                          THEN Frac(coreScore, totalScore)
                                          ELSE Frac(0, 1),
                           relationships |-> CoreRelationships(coreAxial),
                           theoreticalMemo |->
                               GenerateTheoreticalMemo(categories[c], a # 0,
                                                       coreAxial, researchQuestion)]

-----------------------------------------------------------------------------
(* TheoryEngine.buildGroundedTheory, stage 4: theory integration *)

\* TheoryEngine.generateTheoreticalFramework: the parts the text is built of
GenerateTheoreticalFramework(coreCategory, categories, axialResults, paradigm) ==
    [approach |-> IF paradigm = "constructivist"
                  THEN "This grounded theory, constructed from participants' lived experiences, "
                  ELSE "This grounded theory, derived from systematic data analysis, ",
     core |-> coreCategory.name,
     count |-> Len(categories),
     categories |-> Names(categories),
     pattern |-> [i \in 1..Len(coreCategory.relationships) |->
                     coreCategory.relationships[i].description]]

\* TheoryEngine.generateStoryline: the paragraphs emitted
GenerateStoryline(coreCategory, categories, axialResults, researchQuestion) ==
    LET a == FindAxial(axialResults, coreCategory.name)
        coreAxial == IF a = 0 THEN NoAxial ELSE axialResults[a]
    IN  [researchQuestion |-> researchQuestion,
         core |-> coreCategory.name,
         conditions |->
             IF a # 0 /\ (Len(coreAxial.causalConditions) > 0 \/ Len(coreAxial.context) > 0)
             THEN <<coreAxial.causalConditions, coreAxial.context>> ELSE <<>>,
         actions |->
             IF a # 0 /\ Len(coreAxial.actionStrategies) > 0
             THEN <<coreAxial.actionStrategies, coreAxial.interveningConditions>>
             ELSE <<>>,
         outcomes |->
             IF a # 0 /\ Len(coreAxial.consequences) > 0
             THEN <<coreAxial.consequences>> ELSE <<>>]

\* assessTheoryCompleteness, were its four counted parts not capped at 20
AssessTheoryCompletenessUncapped(coreCategory, categories, axialResults) ==
    LET whole == 20 + Len(categories) * 4 + Len(coreCategory.relationships) * 5
                    + Len(axialResults) * 4
        c == coreCategory.centrality
    IN  Frac(whole * c.den + 20 * c.num, 100 * c.den)

\* TheoryEngine.assessTheoryCompleteness: Math.min(score / maxScore, 1), with
\* score = 20 + min(4 categories, 20) + min(5 relationships, 20)
\*            + min(4 axialResults, 20) + 20 centrality and maxScore = 100
AssessTheoryCompleteness(coreCategory, categories, axialResults) ==
    LET whole == 20 + Min(Len(categories) * 4, 20)
                    + Min(Len(coreCategory.relationships) * 5, 20)
                    + Min(Len(axialResults) * 4, 20)
        c == coreCategory.centrality
        ratio == Frac(whole * c.den + 20 * c.num, 100 * c.den)
    IN  IF FracGt(ratio, Frac(1, 1)) THEN Frac(1, 1) ELSE ratio

\* a < b on numbers
FracLt(a, b) == FracGt(b, a)

IncompleteStatement ==
    "Theory is incomplete. Continue data collection and coding to develop more robust categories."

\* TheoryEngine.generateRecommendations
GenerateRecommendations(completeness, coreCategory, categories) ==
    <<IF FracLt(completeness, Frac(6, 10)) THEN IncompleteStatement
      ELSE IF FracLt(completeness, Frac(8, 10))
      THEN "Theory is developing well. Focus on refining relationships between categories."
      ELSE "Theory is well-developed and ready for validation and refinement.">>
    \o (IF Len(coreCategory.relationships) < 3
        THEN <<"Consider exploring more relationships between the core category and other categories.">>
        ELSE <<>>)
    \o (IF Len(categories) < 5
        THEN <<"Theory might benefit from identifying additional categories through further analysis.">>
        ELSE <<>>)
    \o (IF FracLt(coreCategory.centrality, Frac(1, 2))
        THEN <<"The identified core category may not be sufficiently central. Consider if another category better integrates the theory.">>
        ELSE <<>>)
    \o <<"Write detailed theoretical memos to document your analytical decisions.",
         "Consider member checking by sharing preliminary findings with participants.">>

\* TheoryEngine.integrateTheory
IntegrateTheory(coreCategory, categories, axialResults, researchQuestion, paradigm) ==
    LET completeness == AssessTheoryCompleteness(coreCategory, categories, axialResults)
    IN  [threw |-> FALSE,
         coreCategory |-> coreCategory,
         supportingCategories |-> categories,
         theoreticalFramework |->
             GenerateTheoreticalFramework(coreCategory, categories, axialResults, paradigm),
         storyline |->
             GenerateStoryline(coreCategory, categories, axialResults, researchQuestion),
         stage |-> "theory_integration",
         completeness |-> completeness,
         recommendations |->
             GenerateRecommendations(completeness, coreCategory, categories)]

\* TheoryEngine.buildGroundedTheory: a GroundedTheoryResult, or the Error
\* identifyCoreCategory threw
BuildGroundedTheoryOf(codes, researchQuestion, paradigm) ==
    LET categories == IdentifyCategories(codes, paradigm)
        axialResults == PerformAxialCoding(categories, codes)
        coreCategory == IdentifyCoreCategory(categories, axialResults, researchQuestion)
    IN  IF coreCategory.threw THEN coreCategory
        ELSE IntegrateTheory(coreCategory, categories, axialResults,
                             researchQuestion, paradigm)

-----------------------------------------------------------------------------
(* Inputs of the other operations *)

\* texts handed to autoCoding
TextPool == {
    <<>>,
    <<" ">>,
    <<"\n", "\n">>,
    <<"I", " ", "f", "e", "l", "t", " ", "s", "a", "d", " ", "c", "o", "p", "i", "n", "g", ".">>,
    <<"a">> \o <<"\n", "\n", "\n">> \o <<" ">> \o <<"\n", "\n">> \o <<"f", "e", "e", "l", "i", "n", "g", " ", " ", "o", "k">>,
    <<"\n", "\n">> \o <<"f", "e", "l", "t", " ", "s", "a", "d">> \o <<"\n", "\n">> \o <<" ", "F", "e", "l", "t", " ", "s", "a", "d", " ">>,
    <<"h", "e", " ", "s", "a", "i", "d", " ">> \o <<"\"">> \o <<"w", "e", " ", "w", "e", "r", "e", " ", "t", "i", "r", "e", "d">> \o <<"\"">> }

\* existingCodes handed to autoCoding
ExistingCodePool == {<<>>, <<<<"a", "-", "s", "a", "d">>>>, <<<<"f", "e", "l", "t", "-", "s", "a", "d">>, <<"x">>>>}

MethodologyPool == {<<"g", "e", "n", "e", "r", "a", "l">>, <<"g", "r", "o", "u", "n", "d", "e", "d">>, <<"t", "h", "e", "m", "a", "t", "i", "c", " ", "a", "n", "a", "l", "y", "s", "i", "s">>, <<"p", "h", "e", "n", "o", "m", "e", "n", "o", "l", "o", "g", "y">>}

Theme(n, supporting) ==
    [name |-> n, description |-> <<>>, supportingCodes |-> supporting,
     prevalence |-> Frac(1, 2), examples |-> <<>>, subThemes |-> NoSubThemes]

\* themes handed to findNegativeCases
ThemePool == {
    Theme(<<"P", "o", "s", "i", "t", "i", "v", "e">>, <<<<"n", "e", "g", "a", "t", "i", "v", "e">>>>),
    Theme(<<"P", "o", "s", "i", "t", "i", "v", "e", " ", "a", "n", "d", " ", "E", "a", "s", "y">>, <<<<"c", "o", "p", "i", "n", "g">>>>),
    Theme(<<"D", "i", "f", "f", "i", "c", "u", "l", "t">>, <<>>) }

Thresholds == {"weak", "moderate", "strong"}

Modes == {"inductive", "deductive"}

Depths == {"shallow", "medium", "deep"}

Levels == {"code", "theme", "theoretical"}

Paradigms == {"constructivist", "objectivist"}

\* the codes of one data source
SourceCodePool ==
    LET c1 == Code(<<"c", "o", "d", "e", "1">>, <<>>, <<>>, 1, "constructed")
        c2 == Code(<<"c", "o", "d", "e", "2">>, <<>>, <<>>, 1, "constructed")
        c3 == Code(<<"c", "o", "d", "e", "3">>, <<>>, <<>>, 1, "constructed")
    IN  {<<>>, <<c1>>, <<c2>>, <<c3>>, <<c1, c2>>, <<c1, c1>>}

\* codesBySource: the values of the map in insertion order, its keys being
\* the distinct source names
SourceMaps == SeqsUpTo(SourceCodePool, MaxSources)

\* codes of further categories, for the larger codebooks
ExtraCodes == {
    Code(<<"t", "i", "r", "e", "d">>, <<"a", " ", "s", "i", "t", "u", "a", "t", "i", "o", "n", " ", "a", "t", " ", "w", "o", "r", "k">>, <<<<"e", "3">>>>, 1, "in_vivo"),
    Code(<<"s", "a", "d", "n", "e", "s", "s">>, <<"a", "n", " ", "e", "m", "o", "t", "i", "o", "n">>, <<>>, 2, "constructed"),
    Code(<<"p", "l", "a", "n">>, <<"a", " ", "s", "t", "r", "a", "t", "e", "g", "y">>, <<<<"e", "4">>>>, 1, "theoretical"),
    Code(<<"p", "e", "e", "r", "s">>, <<"a", " ", "r", "e", "l", "a", "t", "i", "o", "n", "s", "h", "i", "p">>, <<>>, 1, "constructed"),
    Code(<<"r", "e", "l", "a", "t", "i", "o", "n", "s", "h", "i", "p">>, <<"b", "o", "n", "d">>, <<>>, 1, "in_vivo") }

CodeNamed(n) == CHOOSE c \in CodePool \cup ExtraCodes : c.name = n

\* codebooks of more codes than MaxCodes, or of the further codes, handed to
\* buildGroundedTheory
LargeCodeLists == {
    <<CodeNamed(<<"c", "o", "p", "i", "n", "g">>), CodeNamed(<<"s", "i", "n", "g", "l", "e">>), CodeNamed(<<"n", "e", "g", "a", "t", "i", "v", "e">>),
      CodeNamed(<<"d", "i", "f", "f", "i", "c", "u", "l", "t">>), CodeNamed(<<"t", "i", "r", "e", "d">>), CodeNamed(<<"s", "a", "d", "n", "e", "s", "s">>),
      CodeNamed(<<"p", "l", "a", "n">>)>>,
    <<CodeNamed(<<"t", "i", "r", "e", "d">>), CodeNamed(<<"s", "a", "d", "n", "e", "s", "s">>), CodeNamed(<<"p", "l", "a", "n">>),
      CodeNamed(<<"p", "e", "e", "r", "s">>), CodeNamed(<<"n", "e", "g", "a", "t", "i", "v", "e">>), CodeNamed(<<"a", "-", "b">>)>>,
    <<CodeNamed(<<"p", "e", "e", "r", "s">>), CodeNamed(<<"t", "i", "r", "e", "d">>), CodeNamed(<<"p", "e", "e", "r", "s">>),
      CodeNamed(<<"p", "l", "a", "n">>), CodeNamed(<<"s", "a", "d", "n", "e", "s", "s">>)>>,
    <<CodeNamed(<<"r", "e", "l", "a", "t", "i", "o", "n", "s", "h", "i", "p">>), CodeNamed(<<"t", "i", "r", "e", "d">>), CodeNamed(<<"p", "e", "e", "r", "s">>)>>,
    <<CodeNamed(<<"p", "e", "e", "r", "s">>), CodeNamed(<<"r", "e", "l", "a", "t", "i", "o", "n", "s", "h", "i", "p">>), CodeNamed(<<"p", "e", "e", "r", "s">>)>> }

\* a code named by ten tokens, for name overlaps of three tenths and two tenths
TenTokenCode ==
    Code(<<"a", "-", "b", "-", "c", "-", "d", "-", "e", "-", "f", "-", "g", "-", "h", "-", "i", "-", "j">>, <<>>, <<>>, 1, "constructed")

\* codebooks handed to extractThemes whose names overlap by exactly 0.3
OverlapCodeLists ==
    LET abc == CodeNamed(<<"a", "-", "b", "-", "c">>)
        ab == CodeNamed(<<"a", "-", "b">>)
    IN  {<<TenTokenCode, abc>>, <<abc, TenTokenCode>>, <<TenTokenCode, abc, ab>>,
         <<TenTokenCode, ab, abc>>, <<abc, ab, TenTokenCode>>}

\* a code named in upper case, as an in-vivo code quoted from a transcript is
UpperCaseCode == Code(<<"D", "I", "F", "F", "I", "C", "U", "L", "T">>, <<"h", "a", "r", "d">>, <<<<"e", "5">>>>, 2, "in_vivo")

\* codebooks handed to extractThemes that hold the code named in upper case
UpperCaseCodeLists ==
    {<<UpperCaseCode>>, <<UpperCaseCode, CodeNamed(<<"n", "e", "g", "a", "t", "i", "v", "e">>)>>,
     <<CodeNamed(<<"d", "i", "f", "f", "i", "c", "u", "l", "t">>), UpperCaseCode>>}

\* codebooks handed to extractThemes with a group of more than 5 codes: every
\* code of the group is similar to the first, 'a-b' and 'c-d' are not similar
\* to each other
DeepCodeLists ==
    LET abcd == CodeNamed(<<"a", "-", "b", "-", "c", "-", "d">>)
        abc == CodeNamed(<<"a", "-", "b", "-", "c">>)
        ab == CodeNamed(<<"a", "-", "b">>)
        cd == Code(<<"c", "-", "d">>, <<>>, <<<<"e", "6">>>>, 1, "constructed")
    IN  {<<abcd, cd, abc, cd, abc, ab>>,
         <<abcd, ab, cd, ab, cd, abc, CodeNamed(<<"c", "o", "p", "i", "n", "g">>)>>,
         <<CodeNamed(<<"c", "o", "p", "i", "n", "g">>), abcd, cd, ab, CodeNamed(<<"s", "i", "n", "g", "l", "e">>), cd, ab, abc>>}

\* codebooks handed to findNegativeCases: the codes a theme of ThemePool is
\* contradicted by or supported by, and one it has nothing to do with
NegativeCaseLists ==
    SeqsUpTo({CodeNamed(n) : n \in {<<"n", "e", "g", "a", "t", "i", "v", "e">>, <<"d", "i", "f", "f", "i", "c", "u", "l", "t">>,
                                    <<"c", "o", "p", "i", "n", "g">>, <<"s", "i", "n", "g", "l", "e">>}},
             MaxCodes)

-----------------------------------------------------------------------------
(* The engines' operations as actions *)

\* SQLiteAdapter, as constructed: nothing stored
EmptyStore == [entities |-> <<>>, relations |-> <<>>]

NoArgs == [none |-> TRUE]
NoResult == [none |-> TRUE]

\* after construction: no call made yet
Init ==
    /\ pc = "idle"
    /\ op = "none"
    /\ args = NoArgs
    /\ ret = NoResult
    /\ db = EmptyStore

\* a caller invokes one of the operations with arguments of its own
Call ==
    /\ pc = "idle"
    /\ \/ \E text \in TextPool, existingCodes \in ExistingCodePool,
             methodology \in MethodologyPool :
             /\ op' = "autoCoding"
             /\ args' = [text |-> text, existingCodes |-> existingCodes,
                         methodology |-> methodology]
       \/ \E codes \in CodeLists :
             /\ op' = "refineCodebook"
             /\ args' = [codes |-> codes, again |-> FALSE]
       \/ \E codes \in CodeLists \cup OverlapCodeLists \cup UpperCaseCodeLists
                            \cup DeepCodeLists,
             mode \in Modes, depth \in Depths :
             /\ op' = "extractThemes"
             /\ args' = [codes |-> codes, mode |-> mode, depth |-> depth]
       \/ \E codes \in CodeLists :
             /\ op' = "analyzePatterns"
             /\ args' = [codes |-> codes]
       \/ \E level \in Levels, codesBySource \in SourceMaps :
             /\ op' = "detectSaturation"
             /\ args' = [level |-> level, codesBySource |-> codesBySource]
       \/ \E theme \in ThemePool, allCodes \in NegativeCaseLists, threshold \in Thresholds :
             /\ op' = "findNegativeCases"
             /\ args' = [theme |-> theme, allCodes |-> allCodes,
                         threshold |-> threshold]
       \/ \E codes \in CodeLists \cup LargeCodeLists, paradigm \in Paradigms :
             /\ op' = "buildGroundedTheory"
             /\ args' = [codes |-> codes, researchQuestion |-> "Test?",
                         paradigm |-> paradigm]
    /\ ret' = NoResult
    /\ pc' = "called"
    /\ UNCHANGED db

Called(o) == pc = "called" /\ op = o

\* CodingEngine.autoCoding({text, existingCodes, methodology})
AutoCoding ==
    /\ Called("autoCoding")
    /\ ret' = AutoCodingOf(args.text, args.existingCodes, args.methodology)
    /\ pc' = "returned"
    /\ UNCHANGED <<op, args, db>>

\* CodingEngine.refineCodebook(codes)
RefineCodebook ==
    /\ Called("refineCodebook")
    /\ ret' = RefineCodebookOf(args.codes)
    /\ args' = [args EXCEPT !.codes = CodesAfterRefine(args.codes)]
    /\ pc' = "returned"
    /\ UNCHANGED <<op, db>>

\* the caller hands the refined list the call returned to refineCodebook
RefineCodebookAgain ==
    /\ pc = "returned"
    /\ op = "refineCodebook"
    /\ args' = [codes |-> ret.refined, again |-> TRUE]
    /\ ret' = NoResult
    /\ pc' = "called"
    /\ UNCHANGED <<op, db>>

\* ThemeEngine.extractThemes({codes, mode, depth})
ExtractThemes ==
    /\ Called("extractThemes")
    /\ ret' = ExtractThemesOf(args.codes, args.mode, args.depth)
    /\ pc' = "returned"
    /\ UNCHANGED <<op, args, db>>

\* ThemeEngine.analyzePatterns(codes)
AnalyzePatterns ==
    /\ Called("analyzePatterns")
    /\ ret' = AnalyzePatternsOf(args.codes)
    /\ pc' = "returned"
    /\ UNCHANGED <<op, args, db>>

\* ThemeEngine.detectSaturation({level, codesBySource}), up to its loop
DetectSaturationBegin ==
    /\ Called("detectSaturation")
    /\ ret' = [newCodesPerSource |-> <<>>, seenCodes |-> {}, next |-> 1]
    /\ pc' = "saturation"
    /\ UNCHANGED <<op, args, db>>

\* one turn of the loop over the sources
DetectSaturationSource ==
    /\ pc = "saturation"
    /\ ret.next <= Len(args.codesBySource)
    /\ ret' = SaturationStep(ret, args.codesBySource[ret.next])
    /\ UNCHANGED <<pc, op, args, db>>

\* the rest of detectSaturation, after the loop
DetectSaturationEnd ==
    /\ pc = "saturation"
    /\ ret.next > Len(args.codesBySource)
    /\ ret' = SaturationAnalysis(args.level, ret.newCodesPerSource)
    /\ pc' = "returned"
    /\ UNCHANGED <<op, args, db>>

\* ThemeEngine.findNegativeCases({theme, allCodes, threshold})
FindNegativeCases ==
    /\ Called("findNegativeCases")
    /\ ret' = FindNegativeCasesOf(args.theme, args.allCodes, args.threshold)
    /\ pc' = "returned"
    /\ UNCHANGED <<op, args, db>>

\* TheoryEngine.buildGroundedTheory({codes, researchQuestion, paradigm})
BuildGroundedTheory ==
    /\ Called("buildGroundedTheory")
    /\ ret' = BuildGroundedTheoryOf(args.codes, args.researchQuestion, args.paradigm)
    /\ args' = [args EXCEPT !.codes = CodesAfterTheory(args.codes)]
    /\ pc' = "returned"
    /\ UNCHANGED <<op, db>>

\* the collection a call was handed
Collection(o, a) ==
    IF o = "autoCoding" THEN a.existingCodes
    ELSE IF o = "detectSaturation" THEN a.codesBySource
    ELSE IF o = "findNegativeCases" THEN a.allCodes
    ELSE a.codes

\* the caller repeats the call that has returned, with the arguments it
\* passed as the call left them, and keeps the earlier result to compare
Repeat ==
    /\ pc = "returned"
    /\ "earlier" \notin DOMAIN args
    /\ Len(Collection(op, args)) <= MaxRepeated
    /\ args' = [earlier |-> ret] @@ args
    /\ ret' = NoResult
    /\ pc' = "called"
    /\ UNCHANGED <<op, db>>

\* the caller has taken the result; the engine holds nothing of the call
Return ==
    /\ pc = "returned"
    /\ pc' = "idle"
    /\ op' = "none"
    /\ args' = NoArgs
    /\ ret' = NoResult
    /\ UNCHANGED db

Next ==
    \/ Call
    \/ AutoCoding
    \/ RefineCodebook
    \/ RefineCodebookAgain
    \/ ExtractThemes
    \/ AnalyzePatterns
    \/ DetectSaturationBegin
    \/ DetectSaturationSource
    \/ DetectSaturationEnd
    \/ FindNegativeCases
    \/ BuildGroundedTheory
    \/ Repeat
    \/ Return

Spec == Init /\ [][Next]_vars

-----------------------------------------------------------------------------
(* The host: the CallToolRequest handler of index.ts and the store it uses *)

\* the name of a stored entity: projectName, or projectName__kind__name
EntityName(projectName, kind, name) ==
    [project |-> projectName, kind |-> kind, name |-> name]

\* db.createEntity: a new row, or the row of that name written again
CreateEntity(store, entity) ==
    LET entities == store.entities
        at == {i \in 1..Len(entities) : entities[i].name = entity.name}
    IN  [entities |-> IF at = {} THEN Append(entities, entity)
                      ELSE [i \in 1..Len(entities) |->
                               IF i \in at THEN entity ELSE entities[i]],
         relations |-> store.relations]

\* db.createRelation
CreateRelation(store, relation) ==
    [entities |-> store.entities,
     relations |-> IF \E i \in 1..Len(store.relations) : store.relations[i] = relation
                   THEN store.relations
                   ELSE Append(store.relations, relation)]

\* db.getEntity: the entity of that name, none (null) when there is none
GetEntity(store, name) == SelectSeq(store.entities, LAMBDA e : e.name = name)

\* db.searchEntities(projectName): the entities whose name holds the query
SearchEntities(store, query) ==
    SelectSeq(store.entities, LAMBDA e : e.name.project = query)

\* db.getRelations
GetRelations(store, name) ==
    SelectSeq(store.relations, LAMBDA r : r.from = name \/ r.to = name)

\* what a case of the switch ends in: an Error thrown, or the text returned;
\* the text and the message are kept as the parts they are put together from
Throw(message, store) == [threw |-> TRUE, message |-> message, db |-> store]

Respond(text, store) == [threw |-> FALSE, text |-> text, db |-> store]

\* schema.parse(args): the required fields are there
Parses(required, a) == required \subseteq DOMAIN a

ZodError == <<"ZodError">>

\* the codes of a project as refineCodebook, extractThemes and
\* analyzePatterns read them from the store
ProjectCodes(store, projectName) ==
    LET codeEntities ==
            SelectSeq(SearchEntities(store, projectName),
                      LAMBDA e : e.entityType = "code")
    IN  [i \in 1..Len(codeEntities) |->
            LET e == codeEntities[i]
            IN  Code(e.name.name,
                     IF e.observations = <<>> THEN <<>> ELSE e.observations[1],
                     IF "examples" \in DOMAIN e.metadata
                     THEN e.metadata.examples ELSE <<>>,
                     IF "frequency" \in DOMAIN e.metadata /\ e.metadata.frequency # 0
                     THEN e.metadata.frequency ELSE 1,
                     IF "type" \in DOMAIN e.metadata
                     THEN e.metadata.type ELSE "constructed")]

\* case 'createProject'
CreateProjectCase(a, store) ==
    IF ~Parses({"projectName"}, a) THEN Throw(ZodError, store)
    ELSE Respond(<<"Created project ", a.projectName>>,
             CreateEntity(store,
                 [name |-> EntityName(a.projectName, "project", <<>>),
                  entityType |-> "project",
                  observations |-> <<"Research Questions: Not specified",
                                     "Methodology: Not specified", "Created: now">>,
                  metadata |-> [none |-> TRUE]]))

SourceTypes == {"interview", "observation", "document"}

\* case 'addDataSource'
AddDataSourceCase(a, store) ==
    IF ~Parses({"projectName", "sourceType", "name", "content"}, a)
    THEN Throw(ZodError, store)
    ELSE IF a.sourceType \notin SourceTypes THEN Throw(ZodError, store)
    ELSE LET sourceName == EntityName(a.projectName, a.sourceType, a.name)
             created ==
                 CreateEntity(store,
                     [name |-> sourceName,
                      entityType |-> a.sourceType,
                      observations |-> <<"Content length", "Added: now">>,
                      metadata |-> [content |-> a.content]])
         IN  Respond(<<"Added ", a.sourceType, a.projectName, Len(a.content)>>,
                 CreateRelation(created,
                     [from |-> sourceName,
                      to |-> EntityName(a.projectName, "project", <<>>),
                      relationType |-> "part_of"]))

\* case 'autoCoding': the codes go into the response and nowhere else
AutoCodingCase(a, store) ==
    IF ~Parses({"text"}, a) THEN Throw(ZodError, store)
    ELSE LET result ==
                 AutoCodingOf(a.text,
                     IF "existingCodes" \in DOMAIN a THEN a.existingCodes ELSE <<>>,
                     IF "methodology" \in DOMAIN a THEN a.methodology
                     ELSE <<"g", "e", "n", "e", "r", "a", "l">>)
         IN  Respond(<<"AUTO-CODING RESULTS", Len(a.text), Len(result.codes)>>, store)

\* case 'refineCodebook'
RefineCodebookCase(a, store) ==
    IF ~Parses({"projectName"}, a) THEN Throw(ZodError, store)
    ELSE IF GetEntity(store, EntityName(a.projectName, "project", <<>>)) = <<>>
    THEN Throw(<<"Project ", a.projectName,
                 " not found. Create a project first using createProject.">>, store)
    ELSE LET codes == ProjectCodes(store, a.projectName)
         IN  IF Len(codes) = 0
             THEN Throw(<<"No codes found in project. Run autoCoding first.">>, store)
             ELSE LET result == RefineCodebookOf(codes)
                  IN  Respond(<<"CODEBOOK REFINEMENT", Len(codes),
                                Len(result.refined), Len(result.merges)>>, store)

\* the themes extractThemes found, stored one after the other
RECURSIVE StoreThemes(_, _, _)
StoreThemes(store, projectName, themes) ==
    IF themes = <<>> THEN store
    ELSE LET theme == Head(themes)
             themeName == EntityName(projectName, "theme", theme.name)
             created ==
                 CreateEntity(store,
                     [name |-> themeName,
                      entityType |-> "theme",
                      observations |-> <<theme.description, "Prevalence",
                                         "Supporting codes">>,
                      metadata |-> [theme |-> theme]])
         IN  StoreThemes(
                 CreateRelation(created,
                     [from |-> themeName,
                      to |-> EntityName(projectName, "project", <<>>),
                      relationType |-> "theme_of"]),
                 projectName, Tail(themes))

\* case 'extractThemes'
ExtractThemesCase(a, store) ==
    IF ~Parses({"projectName", "mode"}, a) THEN Throw(ZodError, store)
    ELSE IF a.mode \notin Modes THEN Throw(ZodError, store)
    ELSE IF GetEntity(store, EntityName(a.projectName, "project", <<>>)) = <<>>
    THEN Throw(<<"Project ", a.projectName, " not found.">>, store)
    ELSE LET codes == ProjectCodes(store, a.projectName)
         IN  IF Len(codes) = 0
             THEN Throw(<<"No codes found. Run autoCoding first.">>, store)
             ELSE LET themes ==
                          ExtractThemesOf(codes, a.mode,
                              IF "depth" \in DOMAIN a THEN a.depth ELSE "medium")
                  IN  Respond(<<"THEME EXTRACTION", Len(codes), Len(themes)>>,
                              StoreThemes(store, a.projectName, themes))

\* case 'analyzePatterns': the arguments are read without a schema
AnalyzePatternsCase(a, store) ==
    LET projectName ==
            IF "projectName" \in DOMAIN a THEN a.projectName ELSE "undefined"
    IN  IF GetEntity(store, EntityName(projectName, "project", <<>>)) = <<>>
        THEN Throw(<<"Project ", projectName, " not found.">>, store)
        ELSE LET codes == ProjectCodes(store, projectName)
             IN  IF Len(codes) = 0
                 THEN Throw(<<"No codes found. Run autoCoding first.">>, store)
                 ELSE Respond(<<"PATTERN ANALYSIS", Len(codes),
                                Len(AnalyzePatternsOf(codes))>>, store)

\* the codes autoCoding finds in the data sources that have content
RECURSIVE CodesOfSources(_)
CodesOfSources(dataSources) ==
    IF dataSources = <<>> THEN <<>>
    ELSE LET source == Head(dataSources)
         IN  (IF "content" \in DOMAIN source.metadata /\ source.metadata.content # <<>>
              THEN AutoCodingOf(source.metadata.content, <<>>,
                                <<"g", "r", "o", "u", "n", "d", "e", "d">>).codes
              ELSE <<>>)
             \o CodesOfSources(Tail(dataSources))

\* relations.map(r => db.getEntity(r.from)).filter(e => e !== null)
RECURSIVE EntitiesFrom(_, _)
EntitiesFrom(store, relations) ==
    IF relations = <<>> THEN <<>>
    ELSE GetEntity(store, Head(relations).from) \o EntitiesFrom(store, Tail(relations))

\* the data sources of a project: the entities its part_of relations start at
DataSources(store, projectName) ==
    EntitiesFrom(store,
        SelectSeq(GetRelations(store, EntityName(projectName, "project", <<>>)),
                  LAMBDA r : r.relationType = "part_of"))

\* case 'buildGroundedTheory', from the engine's result on: the Error it
\* threw, or the theory stored and reported
TheoryResponse(a, store, paradigm, theoryResult) ==
    IF theoryResult.threw THEN Throw(<<theoryResult.message>>, store)
    ELSE Respond(<<"GROUNDED THEORY DEVELOPED", theoryResult.coreCategory.name>>,
             CreateRelation(
                 CreateEntity(store,
                     [name |-> EntityName(a.projectName, "theory", <<>>),
                      entityType |-> "grounded_theory",
                      observations |-> <<"Core Category", "Stage",
                                         "Completeness", "Supporting Categories">>,
                      metadata |-> [theory |-> theoryResult,
                                    researchQuestion |-> a.researchQuestion,
                                    paradigm |-> paradigm]]),
                 [from |-> EntityName(a.projectName, "theory", <<>>),
                  to |-> EntityName(a.projectName, "project", <<>>),
                  relationType |-> "theory_of"]))

\* case 'buildGroundedTheory', from the codes of the data sources on
TheoryOfCodes(a, store, paradigm, allCodes) ==
    IF Len(allCodes) = 0
    THEN Throw(<<"No codes found. Please ensure your data sources contain text content.">>,
               store)
    ELSE TheoryResponse(a, store, paradigm,
             BuildGroundedTheoryOf(allCodes, a.researchQuestion, paradigm))

\* case 'buildGroundedTheory'
BuildGroundedTheoryCase(a, store) ==
    IF ~Parses({"projectName", "researchQuestion"}, a) THEN Throw(ZodError, store)
    ELSE IF GetEntity(store, EntityName(a.projectName, "project", <<>>)) = <<>>
    THEN Throw(<<"Project ", a.projectName,
                 " not found. Create a project first using createProject.">>, store)
    ELSE IF Len(DataSources(store, a.projectName)) = 0
    THEN Throw(<<"No data sources found for project ", a.projectName,
                 ". Add data sources using addDataSource.">>, store)
    ELSE TheoryOfCodes(a, store,
             IF "paradigm" \in DOMAIN a THEN a.paradigm ELSE "constructivist",
             CodesOfSources(DataSources(store, a.projectName)))

\* the switch over the tool name, with its default
ToolCase(name, a, store) ==
    CASE name = "createProject" -> CreateProjectCase(a, store)
      [] name = "addDataSource" -> AddDataSourceCase(a, store)
      [] name = "autoCoding" -> AutoCodingCase(a, store)
      [] name = "refineCodebook" -> RefineCodebookCase(a, store)
      [] name = "extractThemes" -> ExtractThemesCase(a, store)
      [] name = "analyzePatterns" -> AnalyzePatternsCase(a, store)
      [] name = "buildGroundedTheory" -> BuildGroundedTheoryCase(a, store)
      [] OTHER -> Respond(<<"Tool ", name,
                            " is registered but implementation is in progress.">>, store)

\* a handler without the try/catch: what was thrown leaves the handler
Uncaught(outcome) == outcome

\* the try/catch around the switch: what was thrown becomes a response
CatchErrors(outcome) ==
    IF outcome.threw
    THEN [isError |-> TRUE, text |-> <<"Error: ">> \o outcome.message]
    ELSE [isError |-> FALSE, text |-> outcome.text]

\* tool names and arguments a client sends
ToolNames ==
    {"createProject", "addDataSource", "autoCoding", "refineCodebook",
     "extractThemes", "analyzePatterns", "buildGroundedTheory", "exportProject"}

ProjectNames == {"study", "other"}

HostTexts == {<<>>, <<"I", " ", "f", "e", "l", "t", " ", "s", "a", "d", " ", "c", "o", "p", "i", "n", "g", ".">>}

ToolArguments(name) ==
    {[none |-> TRUE]} \cup
    CASE name = "createProject" -> {[projectName |-> "study"]}
      [] name = "addDataSource" ->
             {[projectName |-> "study", sourceType |-> t, name |-> <<"i", "1">>,
               content |-> c] : t \in {"interview", "code"}, c \in HostTexts}
      [] name = "autoCoding" -> {[text |-> c] : c \in HostTexts}
      [] name = "extractThemes" ->
             {[projectName |-> p, mode |-> m] : p \in ProjectNames, m \in Modes}
      [] name = "buildGroundedTheory" ->
             {[projectName |-> p, researchQuestion |-> "Test?"] : p \in ProjectNames}
      [] OTHER -> {[projectName |-> p] : p \in ProjectNames}

\* the handler of a CallToolRequest: the case of the tool, inside try/catch
CallToolRequest ==
    /\ pc \in {"idle", "responded"}
    /\ \E name \in ToolNames :
          \E a \in ToolArguments(name) :
             \E outcome \in {ToolCase(name, a, db)} :
                 /\ op' = name
                 /\ args' = a
                 /\ ret' = CatchErrors(outcome)
                 /\ db' = outcome.db
    /\ pc' = "responded"

HostSpec == Init /\ [][CallToolRequest]_vars

-----------------------------------------------------------------------------
(* Claims *)

Returned(o) == pc = "returned" /\ op = o

\* the number of names the merges were made from
RECURSIVE MergedFrom(_)
MergedFrom(merges) ==
    IF merges = <<>> THEN 0 ELSE Len(Head(merges).from) + MergedFrom(Tail(merges))

\* C1: refineCodebook returns a refined list no longer than its input, the
\* frequencies of the refined list sum to those of the input, and every input
\* code is counted once: in a merge's from list or as a code passed through.
C1_RefineConservesFrequency ==
    Returned("refineCodebook") =>
        /\ Len(ret.refined) <= Len(args.codes)
        /\ SumFrequency(ret.refined) = SumFrequency(args.codes)
        /\ Len(args.codes) =
               (Len(ret.refined) - Len(ret.merges)) + MergedFrom(ret.merges)

\* a call that merged two codes of a three-code codebook and passed one through
C1_Witness ==
    /\ Returned("refineCodebook")
    /\ Len(args.codes) = 3
    /\ Len(ret.refined) = 2
    /\ Len(ret.merges) = 1

\* C2: a refineCodebook call on the refined list of the previous
\* refineCodebook call records no merge and returns a list of the same length.
C2_RefineIdempotent ==
    (Returned("refineCodebook") /\ args.again) =>
        /\ Len(ret.merges) = 0
        /\ Len(ret.refined) = Len(args.codes)

\* the frequency of the input code of a name
FrequencyOfName(codes, n) ==
    codes[CHOOSE i \in 1..Len(codes) : codes[i].name = n].frequency

RECURSIVE SupportingFrequency(_, _)
SupportingFrequency(codes, supportingCodes) ==
    IF supportingCodes = <<>> THEN 0
    ELSE FrequencyOfName(codes, Head(supportingCodes))
             + SupportingFrequency(codes, Tail(supportingCodes))

\* C3: every theme extractThemes returns, in either mode, has a prevalence in
\* [0,1] that is the frequencies of its supporting codes, summed, over the
\* frequencies of all the input codes, summed.
C3_PrevalenceIsFrequencyShare ==
    Returned("extractThemes") =>
        \A i \in 1..Len(ret) :
            LET p == ret[i].prevalence
                total == SumFrequency(args.codes)
            IN  /\ ~p.nan
                /\ 0 <= p.num
                /\ p.num <= p.den
                /\ IF total > 0
                   THEN FracEq(p, Frac(SupportingFrequency(args.codes,
                                           ret[i].supportingCodes), total))
                   ELSE p.num = 0

\* an inductive extraction that returned a theme of two codes covering part of
\* the frequency of three
C3_Witness ==
    /\ Returned("extractThemes")
    /\ args.mode = "inductive"
    /\ Len(args.codes) = 3
    /\ \E i \in 1..Len(ret) :
           /\ Len(ret[i].supportingCodes) = 2
           /\ 0 < ret[i].prevalence.num
           /\ ret[i].prevalence.num < ret[i].prevalence.den

Range(seq) == {seq[i] : i \in 1..Len(seq)}

\* C4: on the theme and allCodes of a findNegativeCases call, the cases kept at
\* 'strong' are among those kept at 'moderate', which are among those kept at
\* 'weak', and the counts are ordered the same way.
C4_ThresholdMonotonic ==
    Returned("findNegativeCases") =>
        \A strong \in {FindNegativeCasesOf(args.theme, args.allCodes, "strong").negativeCases},
           moderate \in {FindNegativeCasesOf(args.theme, args.allCodes, "moderate").negativeCases},
           weak \in {FindNegativeCasesOf(args.theme, args.allCodes, "weak").negativeCases} :
            /\ ret.negativeCases \in {strong, moderate, weak}
            /\ Range(strong) \subseteq Range(moderate)
            /\ Range(moderate) \subseteq Range(weak)
            /\ Len(strong) <= Len(moderate)
            /\ Len(moderate) <= Len(weak)

\* a 'strong' call that kept a case and dropped a moderate one
C4_Witness ==
    /\ Returned("findNegativeCases")
    /\ args.threshold = "strong"
    /\ Len(ret.negativeCases) > 0
    /\ Len(ret.negativeCases) <
           Len(FindNegativeCasesOf(args.theme, args.allCodes, "moderate").negativeCases)

\* the names of the codes of the first n sources
SeenAfter(codesBySource, n) ==
    UNION {{codesBySource[h][j].name : j \in 1..Len(codesBySource[h])} : h \in 1..n}

\* the codes of source i whose name occurs in no earlier source
UnseenIn(codesBySource, i) ==
    {j \in 1..Len(codesBySource[i]) :
        codesBySource[i][j].name \notin SeenAfter(codesBySource, i - 1)}

\* C5: detectSaturation returns saturationRate = 1 - min(mean/5, 1), the mean
\* taken over the last three entries of newCodesPerSource, and saturated
\* exactly when that rate is above 0.85; with three sources or more it is
\* saturated when the last three entries sum to at most 2, and not saturated
\* when each of the last three is at least 1.
C5_SaturationRate ==
    Returned("detectSaturation") =>
        LET counts == ret.newCodesPerSource
            n == Len(counts)
            k == IF n < 3 THEN n ELSE 3
            sum == SumSeq([i \in 1..k |-> counts[n - k + i]])
            capped == IF sum > 5 * k THEN 5 * k ELSE sum
            rate == ret.saturationRate
        IN  /\ n > 0 => /\ ~rate.nan
                        /\ rate.num * (5 * k) = (5 * k - capped) * rate.den
                        /\ ret.saturated <=> 100 * (5 * k - capped) > 85 * (5 * k)
            /\ n = 0 => ~ret.saturated
            /\ (n >= 3 /\ sum <= 2) => ret.saturated
            /\ (n >= 3 /\ \A i \in 1..3 : counts[n - 3 + i] >= 1) => ~ret.saturated

\* three sources, the first bringing two codes and the others none: saturated
C5_Witness ==
    /\ Returned("detectSaturation")
    /\ ret.newCodesPerSource = <<2, 0, 0>>
    /\ ret.saturated
    /\ FracGt(ret.saturationRate, Frac(8, 10))

\* C6: detectSaturation takes the sources in the order of the map: whenever k
\* sources have been processed, newCodesPerSource has k entries, the i-th being
\* the number of source i's codes whose name occurs in no earlier source, and
\* the seen set holds every code name of those k sources.
C6_NewCodesPerSource ==
    (op = "detectSaturation" /\ pc # "called") =>
        LET processed == IF pc = "saturation" THEN ret.next - 1
                         ELSE Len(args.codesBySource)
            counts == ret.newCodesPerSource
        IN  /\ Len(counts) = processed
            /\ \A i \in 1..processed :
                   counts[i] = Cardinality(UnseenIn(args.codesBySource, i))
            /\ pc = "saturation" =>
                   ret.seenCodes = SeenAfter(args.codesBySource, processed)

\* in the loop, two of three sources processed: the first counted its code
\* twice, the second brought nothing new
C6_Witness ==
    /\ pc = "saturation"
    /\ Len(args.codesBySource) = 3
    /\ ret.next = 3
    /\ ret.newCodesPerSource = <<2, 0>>
    /\ Cardinality(ret.seenCodes) = 1

\* C7: the saturationRate detectSaturation returns is a number in [0,1], for
\* every map of sources, the empty one included.
C7_SaturationRateInUnitInterval ==
    Returned("detectSaturation") =>
        /\ ~ret.saturationRate.nan
        /\ 0 <= ret.saturationRate.num
        /\ ret.saturationRate.num <= ret.saturationRate.den

\* C8: buildGroundedTheory on a single code of frequency 1 returns a
\* completeness below 0.6 and, first of its recommendations, the statement
\* that the theory is incomplete.
C8_SingleCodeIncomplete ==
    (Returned("buildGroundedTheory") /\ Len(args.codes) = 1
        /\ args.codes[1].frequency = 1) =>
        /\ ~ret.threw
        /\ FracLt(ret.completeness, Frac(6, 10))
        /\ ret.recommendations[1] = IncompleteStatement

\* C9: when open coding produces no category, buildGroundedTheory fails with
\* the 'No categories found' error and returns no result; a call that returns
\* a result has a core category that is one of the categories.
C9_NoCategoriesError ==
    Returned("buildGroundedTheory") =>
        LET categories == IdentifyCategories(args.codes, args.paradigm)
        IN  /\ categories = <<>> =>
                   /\ ret.threw
                   /\ ret.message = NoCategoriesMessage
                   /\ DOMAIN ret = {"threw", "message"}
            /\ args.codes = <<>> => categories = <<>>
            /\ ~ret.threw =>
                   \E i \in 1..Len(categories) :
                       categories[i].name = ret.coreCategory.name

\* buildGroundedTheory on the empty code list threw
C9_Witness ==
    /\ Returned("buildGroundedTheory")
    /\ args.codes = <<>>
    /\ ret.threw

\* C10: on empty input the operations return empty results: autoCoding on the
\* empty text no segment, no code and a summary of zeros; refineCodebook,
\* extractThemes in both modes and analyzePatterns on the empty code list an
\* empty list each.
C10_EmptyInput ==
    /\ (Returned("autoCoding") /\ args.text = <<>>) =>
           /\ ret.segments = <<>>
           /\ ret.codes = <<>>
           /\ ret.summary.totalCodes = 0
           /\ ret.summary.inVivoCodes = 0
           /\ ret.summary.constructedCodes = 0
           /\ ret.summary.theoreticalCodes = 0
           /\ ~ret.summary.averageCodesPerSegment.nan
           /\ ret.summary.averageCodesPerSegment.num = 0
    /\ (Returned("refineCodebook") /\ args.codes = <<>>) =>
           /\ ret.refined = <<>>
           /\ ret.merges = <<>>
    /\ (Returned("extractThemes") /\ args.codes = <<>>) => ret = <<>>
    /\ (Returned("analyzePatterns") /\ args.codes = <<>>) => ret = <<>>

\* autoCoding of the empty text, with existing codes to apply, returned
C10_Witness ==
    /\ Returned("autoCoding")
    /\ args.text = <<>>
    /\ args.existingCodes # <<>>
    /\ ret.summary.totalCodes = 0

Succeeded(o) == Returned(o) /\ ~ret.threw

\* the axial coding result of the named category
AxialOf(axialResults, name) ==
    axialResults[CHOOSE i \in 1..Len(axialResults) :
                     /\ axialResults[i].phenomenon = name
                     /\ \A j \in 1..(i - 1) : axialResults[j].phenomenon # name]

\* twice the centrality score of category i: |relatedCodes| + 2 |causal
\* conditions| + 2 |consequences| + 1.5 |action strategies| + |context|
\* + |intervening conditions|
TwiceScore(categories, axialResults, i) ==
    LET a == AxialOf(axialResults, categories[i].name)
    IN  2 * Len(categories[i].relatedCodes) + 4 * Len(a.causalConditions)
        + 4 * Len(a.consequences) + 3 * Len(a.actionStrategies)
        + 2 * Len(a.context) + 2 * Len(a.interveningConditions)

\* the index of the core category among the supporting categories
CoreIndex(theory) ==
    CHOOSE i \in 1..Len(theory.supportingCategories) :
        theory.supportingCategories[i].name = theory.coreCategory.name

\* C11: in every result of buildGroundedTheory the centrality of the core
\* category is its score over the sum of the scores of all categories, and it
\* is above 0 and at most 1.
C11_CentralityIsScoreShare ==
    Succeeded("buildGroundedTheory") =>
        \A axialResults \in {PerformAxialCoding(ret.supportingCategories, args.codes)} :
        LET categories == ret.supportingCategories
            total == SumSeq([i \in 1..Len(categories) |->
                                TwiceScore(categories, axialResults, i)])
            c == ret.coreCategory.centrality
        IN  /\ ~c.nan
            /\ c.den > 0
            /\ c.num * total = TwiceScore(categories, axialResults, CoreIndex(ret)) * c.den
            /\ 0 < c.num
            /\ c.num <= c.den

\* a theory of two categories or more, whose core has a part of the score only
C11_Witness ==
    /\ Succeeded("buildGroundedTheory")
    /\ Len(ret.supportingCategories) >= 2
    /\ ret.coreCategory.centrality.num < ret.coreCategory.centrality.den
    /\ Len(ret.coreCategory.relationships) >= 1

AtMost20(n) == IF n > 20 THEN 20 ELSE n

\* C12: in every result of buildGroundedTheory, completeness is
\* [20 + min(4 |categories|, 20) + min(5 |core relationships|, 20)
\*  + min(4 |axialResults|, 20) + 20 centrality] / 100, above 0 and at most 1.
C12_CompletenessFormula ==
    Succeeded("buildGroundedTheory") =>
        LET categories == ret.supportingCategories
            counted == 20 + AtMost20(4 * Len(categories))
                          + AtMost20(5 * Len(ret.coreCategory.relationships))
                          + AtMost20(4 * Len(PerformAxialCoding(categories, args.codes)))
            c == ret.coreCategory.centrality
            completeness == ret.completeness
        IN  /\ ~completeness.nan
            /\ completeness.den > 0
            /\ completeness.num * (100 * c.den)
                   = (counted * c.den + 20 * c.num) * completeness.den
            /\ 0 < completeness.num
            /\ completeness.num <= completeness.den

\* a theory of more than five categories, whose count is capped
C12_Witness ==
    /\ Succeeded("buildGroundedTheory")
    /\ Len(ret.supportingCategories) > 5
    /\ FracGt(ret.completeness, Frac(6, 10))
    /\ FracLt(ret.completeness, Frac(1, 1))

\* the supporting categories whose relatedCodes hold the name
CategoriesHolding(theory, n) ==
    {i \in 1..Len(theory.supportingCategories) :
        Contains(theory.supportingCategories[i].relatedCodes, n)}

\* C14: in every result of buildGroundedTheory the supporting categories
\* partition the input codes: every input code is among the relatedCodes of
\* exactly one category, the relatedCodes hold as many entries as there are
\* input codes, and no category is without a related code.
C14_CategoriesPartitionCodes ==
    Succeeded("buildGroundedTheory") =>
        LET categories == ret.supportingCategories
        IN  /\ \A i \in 1..Len(args.codes) :
                   Cardinality(CategoriesHolding(ret, args.codes[i].name)) = 1
            /\ SumSeq([i \in 1..Len(categories) |-> Len(categories[i].relatedCodes)])
                   = Len(args.codes)
            /\ \A i \in 1..Len(categories) :
                   /\ Len(categories[i].relatedCodes) >= 1
                   /\ \A j \in 1..Len(categories[i].relatedCodes) :
                          \E k \in 1..Len(args.codes) :
                              args.codes[k].name = categories[i].relatedCodes[j]

\* a theory in which two category names were merged: one category holds the
\* codes of both, another holds a single code
C14_Witness ==
    /\ Succeeded("buildGroundedTheory")
    /\ Len(args.codes) = 3
    /\ Len(ret.supportingCategories) = 2
    /\ \E i, j \in 1..2 :
           /\ ret.supportingCategories[i].name = <<"r", "e", "l", "a", "t", "i", "o", "n", "s", "h", "i", "p">>
           /\ Len(ret.supportingCategories[i].relatedCodes) = 2
           /\ Len(ret.supportingCategories[j].relatedCodes) = 1

\* C15: the core category is one of the supporting categories, no supporting
\* category has a higher centrality score than it, and every category created
\* before it has a lower one.
C15_CoreHasHighestScore ==
    Succeeded("buildGroundedTheory") =>
        \A axialResults \in {PerformAxialCoding(ret.supportingCategories, args.codes)} :
        LET categories == ret.supportingCategories
            Score(i) == TwiceScore(categories, axialResults, i)
            named == {i \in 1..Len(categories) :
                         categories[i].name = ret.coreCategory.name}
        IN  /\ Cardinality(named) = 1
            /\ \A core \in named :
                   /\ ret.coreCategory.description = categories[core].description
                   /\ \A i \in 1..Len(categories) : Score(i) <= Score(core)
                   /\ \A i \in 1..(core - 1) : Score(i) < Score(core)

\* a theory in which a later category has the score of the core category
C15_Witness ==
    /\ Succeeded("buildGroundedTheory")
    /\ LET categories == ret.supportingCategories
       IN  \E axialResults \in {PerformAxialCoding(categories, args.codes)},
              i \in 1..Len(categories) :
               /\ i > CoreIndex(ret)
               /\ TwiceScore(categories, axialResults, i)
                      = TwiceScore(categories, axialResults, CoreIndex(ret))

Responded(tool) == pc = "responded" /\ op = tool

HasCodedSource(projectName) ==
    /\ GetEntity(db, EntityName(projectName, "project", <<>>)) # <<>>
    /\ \E i \in 1..Len(DataSources(db, projectName)) :
           DataSources(db, projectName)[i].metadata.content = args.text

\* C17: the codes autoCoding generates are stored in the knowledge graph:
\* once a project has been created, a data source added and its text coded by
\* autoCoding, a following refineCodebook, extractThemes or analyzePatterns
\* call for the project finds codes and does not fail with "No codes found".
C17_AutoCodingStoresCodes ==
    [][(/\ Responded("autoCoding")
        /\ ~ret.isError
        /\ args.text # <<>>
        /\ HasCodedSource("study")
        /\ op' \in {"refineCodebook", "extractThemes", "analyzePatterns"}
        /\ "projectName" \in DOMAIN args'
        /\ args'.projectName = "study")
       => /\ ret'.text # <<"Error: ", "No codes found in project. Run autoCoding first.">>
          /\ ret'.text # <<"Error: ", "No codes found. Run autoCoding first.">>]_vars


\* the founding members of the groups refineCodebook made of its input
Founders(codes) ==
    LET groups == RefineGroups(codes, <<>>)
    IN  [g \in 1..Len(groups) |-> groups[g].codes[1]]

\* C18: the Code refineCodebook merges a cluster of several members into has
\* the definition and the type of the cluster's first member, the one that
\* founded the cluster in input order, also when another member has the
\* shortest name.
C18_MergedCodeOfFounder ==
    Returned("refineCodebook") =>
        \A g \in 1..Len(ret.refined) :
            /\ ret.refined[g].definition = Founders(args.codes)[g].definition
            /\ ret.refined[g].type = Founders(args.codes)[g].type

\* ten times the tokens the two names share, and three times the larger
\* token count: the overlap is 0.3 when the two are equal
SharedTenfold(code1, code2) ==
    10 * CommonWords(SplitName(code1.name), SplitName(code2.name))

LongerThreefold(code1, code2) ==
    3 * Max(Len(SplitName(code1.name)), Len(SplitName(code2.name)))

\* the groups of an inductive extractThemes call, as the themes show them:
\* the groups of two codes and more are the themes' supportingCodes
GroupsOfCall ==
    LET groups == GroupCodesBySimilarity(args.codes)
        themed == SelectSeq(groups, LAMBDA g : Len(g.codes) >= 2)
    IN  IF {Names(themed[i].codes) : i \in 1..Len(themed)}
               = {ret[i].supportingCodes : i \in 1..Len(ret)}
        THEN groups ELSE <<>>

\* C19 as stated: a code joins the first group whose founder overlaps its
\* name by 0.3 or more, exactly 0.3 included, and only a code that overlaps
\* every founder by less than 0.3 starts a group.
C19_GroupsByOverlapAtLeast ==
    (Returned("extractThemes") /\ args.mode = "inductive") =>
        LET groups == GroupsOfCall
        IN  /\ Len(groups) = 0 <=> Len(args.codes) = 0
            /\ \A g \in 1..Len(groups) : \A m \in 1..Len(groups[g].codes) :
                   LET code == groups[g].codes[m]
                   IN  /\ m > 1 => SharedTenfold(code, groups[g].codes[1])
                                      >= LongerThreefold(code, groups[g].codes[1])
                       /\ \A k \in 1..(g - 1) :
                              SharedTenfold(code, groups[k].codes[1])
                                  < LongerThreefold(code, groups[k].codes[1])

\* C19, amended: a code joins the first group whose founder overlaps its name
\* by more than 0.3; a code that overlaps every founder by 0.3 or less, exactly
\* 0.3 included, starts a group.
C19_GroupsByOverlapAbove ==
    (Returned("extractThemes") /\ args.mode = "inductive") =>
        LET groups == GroupsOfCall
        IN  /\ Len(groups) = 0 <=> Len(args.codes) = 0
            /\ \A g \in 1..Len(groups) : \A m \in 1..Len(groups[g].codes) :
                   LET code == groups[g].codes[m]
                   IN  /\ m > 1 => SharedTenfold(code, groups[g].codes[1])
                                      > LongerThreefold(code, groups[g].codes[1])
                       /\ \A k \in 1..(g - 1) :
                              SharedTenfold(code, groups[k].codes[1])
                                  <= LongerThreefold(code, groups[k].codes[1])

\* an inductive call on a codebook whose second code shares three of the
\* first code's ten tokens and founded a group of its own, which a third
\* code joined
C19_Witness ==
    /\ Returned("extractThemes")
    /\ args.mode = "inductive"
    /\ Len(args.codes) = 3
    /\ SharedTenfold(args.codes[2], args.codes[1]) = 30
    /\ LongerThreefold(args.codes[2], args.codes[1]) = 30
    /\ Len(ret) = 1
    /\ ret[1].supportingCodes = <<args.codes[2].name, args.codes[3].name>>


\* String.prototype.substring(start, end), start and end counted from 0
Substring(text, start, end) == SubSeq(text, Min(start, Len(text)) + 1, Min(end, Len(text)))

\* C20: every segment autoCoding returns keeps the character range it came
\* from: the input text from startIndex to endIndex, trimmed, is the segment's
\* text, whatever the number of newlines between the paragraphs and of blank
\* paragraphs before them.
C20_SegmentsKeepTheirRange ==
    Returned("autoCoding") =>
        \A i \in 1..Len(ret.segments) :
            Trim(Substring(args.text, ret.segments[i].startIndex,
                           ret.segments[i].endIndex)) = ret.segments[i].text

\* the category references of axial coding alone: the lists of every category
\* when no code definition is scanned
CategoryReferences(categories) == PerformAxialCoding(categories, <<>>)

\* C21: in every result of buildGroundedTheory no category's name is among
\* the category references of its own causalConditions, context,
\* interveningConditions, actionStrategies or consequences, so no relationship
\* of the core category names the core category itself.
C21_NoSelfReference ==
    Succeeded("buildGroundedTheory") =>
        \A references \in {CategoryReferences(ret.supportingCategories)} :
            \A i \in 1..Len(references) :
                LET own == references[i].phenomenon
                IN  /\ ~Contains(references[i].causalConditions, own)
                    /\ ~Contains(references[i].context, own)
                    /\ ~Contains(references[i].interveningConditions, own)
                    /\ ~Contains(references[i].actionStrategies, own)
                    /\ ~Contains(references[i].consequences, own)

\* the entries a definition scan appended to an axial list, after the
\* category references
CodeDerived(list, references) == Range(SubSeq(list, Len(references) + 1, Len(list)))

\* C22: in every result of buildGroundedTheory, every code name a definition
\* scan placed in a category's causalConditions, context or consequences is
\* one of that category's relatedCodes.
C22_ScansMemberCodesOnly ==
    Succeeded("buildGroundedTheory") =>
        \A axialResults \in {PerformAxialCoding(ret.supportingCategories, args.codes)} :
        \A references \in {CategoryReferences(ret.supportingCategories)} :
            \A i \in 1..Len(axialResults) :
                \A n \in CodeDerived(axialResults[i].causalConditions, references[i].causalConditions)
                         \cup CodeDerived(axialResults[i].context, references[i].context)
                         \cup CodeDerived(axialResults[i].consequences, references[i].consequences) :
                    Contains(ret.supportingCategories[i].relatedCodes, n)

\* the code names attached to the segments, in order, repeats included
RECURSIVE Applications(_)
Applications(segments) ==
    IF segments = <<>> THEN <<>>
    ELSE Head(segments).codes \o Applications(Tail(segments))

\* the number of times the name is among the names
TimesAmong(names, n) == Cardinality({i \in 1..Len(names) : names[i] = n})

\* C23: the codes autoCoding returns have pairwise distinct names, the
\* frequency of each is the number of times its name was attached to a
\* segment, repeats within a segment counted, and the frequencies add up to
\* the sum of the lengths of the segments' codes lists.
C23_FrequencyCountsApplications ==
    Returned("autoCoding") =>
        \A applications \in {Applications(ret.segments)} :
            /\ \A i, j \in 1..Len(ret.codes) :
                   ret.codes[i].name = ret.codes[j].name => i = j
            /\ \A i \in 1..Len(ret.codes) :
                   ret.codes[i].frequency = TimesAmong(applications, ret.codes[i].name)
            /\ SumFrequency(ret.codes) = Len(applications)
            /\ Range(applications) = Range(Names(ret.codes))

\* a text of two segments or more, with a name attached twice to one segment
\* and a name attached to two segments
C23_Witness ==
    /\ Returned("autoCoding")
    /\ Len(ret.segments) >= 2
    /\ \E s \in 1..Len(ret.segments) : \E i, j \in 1..Len(ret.segments[s].codes) :
           i # j /\ ret.segments[s].codes[i] = ret.segments[s].codes[j]
    /\ \E s, t \in 1..Len(ret.segments) :
           s # t /\ Range(ret.segments[s].codes) \cap Range(ret.segments[t].codes) # {}

\* the themes of the call that carry the framework's name
ThemesNamed(themes, n) == {i \in 1..Len(themes) : themes[i].name = n}

\* C24: deductive theme extraction matches the keywords of a framework
\* against the code name and the code definition in any letter case: a code
\* whose name or definition, lower-cased, contains a keyword is among the
\* supporting codes of that framework's theme.
C24_KeywordsInAnyCase ==
    (Returned("extractThemes") /\ args.mode = "deductive") =>
        \A f \in 1..Len(TheoreticalFrameworks) : \A i \in 1..Len(args.codes) :
            (\E k \in 1..Len(TheoreticalFrameworks[f].keywords) :
                \/ Includes(ToLowerCase(args.codes[i].name), TheoreticalFrameworks[f].keywords[k])
                \/ Includes(ToLowerCase(args.codes[i].definition), TheoreticalFrameworks[f].keywords[k]))
            => \E t \in ThemesNamed(ret, TheoreticalFrameworks[f].name) :
                   Contains(ret[t].supportingCodes, args.codes[i].name)

\* C25: buildGroundedTheory fails if and only if the code list is empty: for
\* every non-empty code list open coding yields a category, the call returns
\* a theory whose one core category is one of the supporting categories, and
\* the only failure there is, on the empty list, is 'No categories found'.
C25_FailsOnlyOnNoCodes ==
    Returned("buildGroundedTheory") =>
        /\ ret.threw <=> args.codes = <<>>
        /\ ret.threw => ret.message = NoCategoriesMessage
        /\ args.codes # <<>> =>
               /\ IdentifyCategories(args.codes, args.paradigm) # <<>>
               /\ Len(ret.supportingCategories) >= 1
               /\ \E i \in 1..Len(ret.supportingCategories) :
                      ret.supportingCategories[i].name = ret.coreCategory.name

\* a theory built of one code alone, and of a code that falls to the default
\* category
C25_Witness ==
    /\ Succeeded("buildGroundedTheory")
    /\ Len(args.codes) = 1
    /\ ret.coreCategory.name = <<"m", "i", "s", "c", "e", "l", "l", "a", "n", "e", "o", "u", "s">>

\* C26: in deep inductive mode every theme of more than 5 supporting codes
\* has exactly one sub-theme, whose supportingCodes are the theme's own
\* supportingCodes and which has no subThemes itself.
C26_OneSubThemeOfAllCodes ==
    (Returned("extractThemes") /\ args.mode = "inductive" /\ args.depth = "deep") =>
        \A t \in 1..Len(ret) :
            Len(ret[t].supportingCodes) > 5 =>
                /\ ret[t].subThemes.defined
                /\ Len(ret[t].subThemes.themes) = 1
                /\ ret[t].subThemes.themes[1].supportingCodes = ret[t].supportingCodes
                /\ ret[t].subThemes.themes[1].subThemes = NoSubThemes

\* a deep inductive call that returned a theme of more than 5 codes, two of
\* them not similar to each other, beside a code outside the theme
C26_Witness ==
    /\ Returned("extractThemes")
    /\ args.mode = "inductive"
    /\ args.depth = "deep"
    /\ \E t \in 1..Len(ret) :
           /\ Len(ret[t].supportingCodes) > 5
           /\ Len(ret[t].supportingCodes) < Len(args.codes)
           /\ ret[t].subThemes.defined
           /\ \E i, j \in 1..Len(args.codes) :
                  /\ Contains(ret[t].supportingCodes, args.codes[i].name)
                  /\ Contains(ret[t].supportingCodes, args.codes[j].name)
                  /\ ~ThemeCodesAreSimilar(args.codes[i], args.codes[j])

\* the loop of detectSaturation over the sources from locals.next on
RECURSIVE SaturationLoop(_, _)
SaturationLoop(locals, codesBySource) ==
    IF locals.next > Len(codesBySource) THEN locals
    ELSE SaturationLoop(SaturationStep(locals, codesBySource[locals.next]), codesBySource)

\* detectSaturation as one function of its arguments
DetectSaturationOf(level, codesBySource) ==
    SaturationAnalysis(level,
        SaturationLoop([newCodesPerSource |-> <<>>, seenCodes |-> {}, next |-> 1],
                       codesBySource).newCodesPerSource)

\* the sources that bring no code name the map has not seen
SourcesOfSeenCodes(codesBySource) ==
    {sourceCodes \in SourceCodePool :
        Range(Names(sourceCodes)) \subseteq SeenAfter(codesBySource, Len(codesBySource))}

\* C27: a source appended to the end of codesBySource that brings no new code
\* name never lowers the saturationRate detectSaturation returns and never
\* turns saturated from true to false.
C27_SeenSourceNeverLowersRate ==
    Returned("detectSaturation") =>
        \A sourceCodes \in SourcesOfSeenCodes(args.codesBySource) :
            \A longer \in {DetectSaturationOf(args.level,
                                              Append(args.codesBySource, sourceCodes))} :
                /\ ret = DetectSaturationOf(args.level, args.codesBySource)
                /\ longer.newCodesPerSource = Append(ret.newCodesPerSource, 0)
                /\ ~FracLt(longer.saturationRate, ret.saturationRate)
                /\ ret.saturated => longer.saturated

\* three sources of one new code each, not saturated: a fourth source of two
\* codes seen before raises the rate and saturates
C27_Witness ==
    /\ Returned("detectSaturation")
    /\ ret.newCodesPerSource = <<1, 1, 1>>
    /\ ~ret.saturated
    /\ \E sourceCodes \in SourcesOfSeenCodes(args.codesBySource) :
           /\ Len(sourceCodes) = 2
           /\ \E longer \in {DetectSaturationOf(args.level,
                                                Append(args.codesBySource, sourceCodes))} :
                  /\ FracGt(longer.saturationRate, ret.saturationRate)
                  /\ longer.saturated

\* C28: findNegativeCases produces no case of strength 'weak': on the theme
\* and allCodes of a call, the thresholds 'weak' and 'moderate' return the
\* same negativeCases and the same recommendation.
C28_WeakEqualsModerate ==
    Returned("findNegativeCases") =>
        \A weak \in {FindNegativeCasesOf(args.theme, args.allCodes, "weak")},
           moderate \in {FindNegativeCasesOf(args.theme, args.allCodes, "moderate")} :
            /\ \A i \in 1..Len(ret.negativeCases) : ret.negativeCases[i].strength # "weak"
            /\ \A i \in 1..Len(weak.negativeCases) :
                   weak.negativeCases[i].strength \in {"moderate", "strong"}
            /\ weak.negativeCases = moderate.negativeCases
            /\ weak.recommendation = moderate.recommendation
            /\ args.threshold \in {"weak", "moderate"} => ret = weak

\* a 'moderate' call that returned a moderate case beside a strong one, which
\* 'strong' would have dropped
C28_Witness ==
    /\ Returned("findNegativeCases")
    /\ args.threshold = "moderate"
    /\ \E i, j \in 1..Len(ret.negativeCases) :
           /\ ret.negativeCases[i].strength = "moderate"
           /\ ret.negativeCases[j].strength = "strong"
    /\ ret # FindNegativeCasesOf(args.theme, args.allCodes, "strong")

\* one name is the other with 's' or 'es' appended
PluralOf(cat1, cat2) == cat1 = cat2 \o <<"s">> \/ cat1 = cat2 \o <<"e", "s">>

\* C29: the names of the supporting categories buildGroundedTheory returns
\* are pairwise distinct and pairwise not similar: no two are equal, none is
\* another with 's' or 'es' appended, and no two share a name token.
C29_CategoryNamesApart ==
    Succeeded("buildGroundedTheory") =>
        \A i, j \in 1..Len(ret.supportingCategories) :
            i # j =>
                LET cat1 == ret.supportingCategories[i].name
                    cat2 == ret.supportingCategories[j].name
                IN  /\ cat1 # cat2
                    /\ ~PluralOf(cat1, cat2)
                    /\ ~PluralOf(cat2, cat1)
                    /\ Range(SplitName(cat1)) \cap Range(SplitName(cat2)) = {}

\* a theory of two categories or more, one of which took in the codes of a
\* category named in the singular
C29_Witness ==
    /\ Succeeded("buildGroundedTheory")
    /\ Len(ret.supportingCategories) >= 2
    /\ \E a, b \in 1..Len(args.codes) :
           /\ PluralOf(InferCategoryName(args.codes[a]), InferCategoryName(args.codes[b]))
           /\ \E i \in 1..Len(ret.supportingCategories) :
                  /\ Contains(ret.supportingCategories[i].relatedCodes, args.codes[a].name)
                  /\ Contains(ret.supportingCategories[i].relatedCodes, args.codes[b].name)

\* frequency and significance of the co-occurrence patterns emitted for the
\* two names, in either order
PairPatterns(patterns, name1, name2) ==
    {[frequency |-> patterns[p].frequency, significance |-> patterns[p].significance] :
        p \in {q \in 1..Len(patterns) :
                  /\ patterns[q].type = "co-occurrence"
                  /\ patterns[q].elements \in {<<name1, name2>>, <<name2, name1>>}}}

\* C30: the co-occurrence pattern analyzePatterns emits for a pair of codes
\* does not depend on which of the two comes first in the input list: with
\* the two codes swapped, the pattern of the pair has the same frequency and
\* the same significance.
C30_CoOccurrenceIsSymmetric ==
    Returned("analyzePatterns") =>
        \A i, j \in 1..Len(args.codes) :
            i < j =>
                \A swapped \in {[args.codes EXCEPT ![i] = args.codes[j],
                                                   ![j] = args.codes[i]]} :
                    PairPatterns(ret, args.codes[i].name, args.codes[j].name)
                        = PairPatterns(AnalyzePatternsOf(swapped),
                                       args.codes[i].name, args.codes[j].name)

=============================================================================
